---- MODULE Spec2Model ----
(***************************************************************************)
(* Service resilience layer of code-blank-ai: the telemetry / health       *)
(* registry (src/utils/telemetry.ts), the adaptive rate limiter            *)
(* (utils/rateLimit.ts, found in src/unnamed/part_008), the service        *)
(* lifecycle manager (ServiceManager in src/utils/regexAnalysis.ts) and    *)
(* the result cache (src/hooks/useHintCache.ts).                           *)
(*                                                                         *)
(* JavaScript runs each synchronous function to completion, so every       *)
(* synchronous method is one action; an async function is split at its     *)
(* awaits.  Date.now() is the variable now, advanced by Tick.              *)
(***************************************************************************)
EXTENDS Integers, Sequences, FiniteSets, TLC

VARIABLES
    now,        \* Date.now(), in ms
    events,     \* TelemetryService.events, newest first
    metrics,    \* TelemetryService.metrics, one ServiceMetrics per service
    limits,     \* RateLimiter.limits, the effective RateLimitConfig per service
    rlState,    \* RateLimiter.state, one RateLimitState per service
    baseLimits, \* the module-level table DEFAULT_LIMITS as it is now
    rlCalls,    \* the withRateLimit calls made so far, each with its position
    svc,        \* the service the modelled caller talks to
    recorded,   \* history: the recordServiceCall calls made for svc
    watch,      \* history: what the checkRateLimit(svc) calls of the current windows did
    tCalls,     \* the withTelemetry calls made so far, each with its position
    lastHealth, \* what the latest TelemetryService.getServiceHealth call returned
    smState,    \* ServiceManager.state: readiness flags, retryCount, lastError
    healthCheckInterval, \* ServiceManager.healthCheckInterval: a timer id, 0 for null
    timers,     \* the interval timers of the event loop that are armed: id -> next due time
    initCalls,  \* the ServiceManager.initialize() calls made so far, each with its position
    sweeps,     \* the checkServicesHealth() runs started so far, each with its position
    lifeHist,   \* history: failed recoveries in a row per service, shutdown / re-initialize marks
    cache,      \* the Map of one useHintCache instance: its entries in iteration order
    cacheOptions, \* the options that useHintCache instance was created with
    cacheOut,   \* what the latest cache.get returned, and for which key
    cacheHist,  \* history: the latest set of every key, its hits since, the evictions
    instance,   \* the static field ServiceManager.instance, "undefined" until assigned
    getCalls,   \* the ServiceManager.getInstance() calls made so far, each with its call stack
    analyses,   \* the analyzeCode() calls made so far, each with what it did and returned
    opsLeft     \* the number of operations the modelled caller may still issue

vars == <<now, events, metrics, limits, rlState, baseLimits, rlCalls, svc, recorded, watch,
          tCalls, lastHealth, smState, healthCheckInterval, timers, initCalls, sweeps,
          lifeHist, cache, cacheOptions, cacheOut, cacheHist, instance, getCalls, analyses,
          opsLeft>>

telemetryVars == <<events, metrics>>
limiterVars == <<limits, rlState, baseLimits>>
historyVars == <<recorded, watch>>
probeVars == <<tCalls, lastHealth>>
lifecycleVars == <<smState, healthCheckInterval, timers, initCalls, sweeps, lifeHist>>
cacheVars == <<cache, cacheOptions, cacheOut, cacheHist>>
callerVars == <<instance, getCalls, analyses>>

-----------------------------------------------------------------------------
(* Bounds of the model *)

StartTime == 1000000     \* Date.now() when the singletons are constructed
MaxCalls == 4            \* recordServiceCall calls in one behaviour of SpecTelemetry
MaxElapsed == 400000     \* ms of modelled time in SpecTelemetry
MaxOps == 4              \* operations and clock steps in one behaviour of Spec
MaxTicks == 6            \* clock steps in one behaviour of SpecWindow
MaxWindowElapsed == 66000 \* ms of modelled time in SpecWindow

Durations == {100, 3000, 6000}          \* latencies of the recorded calls, in ms
TelemetrySteps == {100000, 300000}      \* steps of the clock in SpecTelemetry, in ms
LimiterSteps == {1000, 60000}           \* steps of the clock in Spec, in ms
WindowSteps == {1000, 30000, 60000}     \* steps of the clock in SpecWindow, in ms

-----------------------------------------------------------------------------
(* Services and program constants *)

Services == {"vectorStore", "openai", "documentation"}

maxEvents == 1000
recentWindow == 5 * 60 * 1000
maxAcceptableLatency == 5000

\* `lastSuccessful?: number` is undefined until the first success; the code
\* tests it with `!metrics.lastSuccessful`, which is also true of 0.
Unset == 0
NoError == "none"

-----------------------------------------------------------------------------
(* averageLatency is a JavaScript number; it is kept as an exact fraction   *)
(* num/den in lowest terms, so that the incremental mean is computed as     *)
(* the code computes it and can be compared with the true mean.             *)

RECURSIVE GCD(_, _)
GCD(a, b) == IF b = 0 THEN a ELSE GCD(b, a % b)

Frac(n, d) == LET g == GCD(n, d) IN [num |-> n \div g, den |-> d \div g]

\* Mutant: weighs the old average with totalCalls instead of totalCalls - 1
MovingAverage_OffByOne(avg, totalCalls, duration) ==
    Frac(avg.num * totalCalls + duration * avg.den, avg.den * totalCalls)

\* (averageLatency * (totalCalls - 1) + duration) / totalCalls
MovingAverage(avg, totalCalls, duration) ==
    Frac(avg.num * (totalCalls - 1) + duration * avg.den, avg.den * totalCalls)

FracLess(a, k) == a.num < k * a.den
FracGreater(a, k) == a.num > k * a.den

-----------------------------------------------------------------------------
(* TelemetryService *)

initializeMetrics ==
    [totalCalls |-> 0, successfulCalls |-> 0, failedCalls |-> 0,
     averageLatency |-> [num |-> 0, den |-> 1],
     lastError |-> NoError, lastSuccessful |-> Unset]

\* Mutant: events.shift() instead of events.pop(): the new event is the one removed
Unshift_DropsNewest(evs, type, service, message) ==
    LET grown == <<[timestamp |-> now, type |-> type, service |-> service,
                    message |-> message]>> \o evs
    IN  IF Len(grown) > maxEvents THEN Tail(grown) ELSE grown

\* events.unshift(event); if (events.length > maxEvents) events.pop()
Unshift(evs, type, service, message) ==
    LET grown == <<[timestamp |-> now, type |-> type, service |-> service,
                    message |-> message]>> \o evs
    IN  IF Len(grown) > maxEvents THEN SubSeq(grown, 1, Len(grown) - 1) ELSE grown

\* Mutant: a success does not set lastSuccessful
RecordedMetrics_NoStamp(m, startTime, success, error) ==
    [totalCalls |-> m.totalCalls + 1,
     successfulCalls |-> IF success THEN m.successfulCalls + 1 ELSE m.successfulCalls,
     failedCalls |-> IF success THEN m.failedCalls ELSE m.failedCalls + 1,
     lastSuccessful |-> m.lastSuccessful,
     lastError |-> IF success THEN m.lastError ELSE error,
     averageLatency |-> MovingAverage(m.averageLatency, m.totalCalls + 1, now - startTime)]

\* Mutant: failedCalls is incremented on every call
RecordedMetrics_AllFailed(m, startTime, success, error) ==
    [totalCalls |-> m.totalCalls + 1,
     successfulCalls |-> IF success THEN m.successfulCalls + 1 ELSE m.successfulCalls,
     failedCalls |-> m.failedCalls + 1,
     lastSuccessful |-> IF success THEN now ELSE m.lastSuccessful,
     lastError |-> IF success THEN m.lastError ELSE error,
     averageLatency |-> MovingAverage(m.averageLatency, m.totalCalls + 1, now - startTime)]

\* Mutant: a failure takes one successful call back
RecordedMetrics_Rollback(m, startTime, success, error) ==
    [totalCalls |-> m.totalCalls + 1,
     successfulCalls |-> IF success THEN m.successfulCalls + 1
                         ELSE IF m.successfulCalls > 0 THEN m.successfulCalls - 1 ELSE 0,
     failedCalls |-> IF success THEN m.failedCalls ELSE m.failedCalls + 1,
     lastSuccessful |-> IF success THEN now ELSE m.lastSuccessful,
     lastError |-> IF success THEN m.lastError ELSE error,
     averageLatency |-> MovingAverage(m.averageLatency, m.totalCalls + 1, now - startTime)]

\* Mutant: totalCalls is incremented in the success branch only
RecordedMetrics_DropsFailure(m, startTime, success, error) ==
    [totalCalls |-> IF success THEN m.totalCalls + 1 ELSE m.totalCalls,
     successfulCalls |-> IF success THEN m.successfulCalls + 1 ELSE m.successfulCalls,
     failedCalls |-> IF success THEN m.failedCalls ELSE m.failedCalls + 1,
     lastSuccessful |-> IF success THEN now ELSE m.lastSuccessful,
     lastError |-> IF success THEN m.lastError ELSE error,
     averageLatency |-> MovingAverage(m.averageLatency, m.totalCalls + 1, now - startTime)]

\* Mutant: a failure sets lastSuccessful as well
RecordedMetrics_StampsFailure(m, startTime, success, error) ==
    [totalCalls |-> m.totalCalls + 1,
     successfulCalls |-> IF success THEN m.successfulCalls + 1 ELSE m.successfulCalls,
     failedCalls |-> IF success THEN m.failedCalls ELSE m.failedCalls + 1,
     lastSuccessful |-> now,
     lastError |-> IF success THEN m.lastError ELSE error,
     averageLatency |-> MovingAverage(m.averageLatency, m.totalCalls + 1, now - startTime)]

\* The ServiceMetrics of `service` after recordServiceCall(service, startTime, success, error)
RecordedMetrics(m, startTime, success, error) ==
    LET duration == now - startTime
        total == m.totalCalls + 1
    IN  [totalCalls |-> total,
         successfulCalls |-> IF success THEN m.successfulCalls + 1 ELSE m.successfulCalls,
         failedCalls |-> IF success THEN m.failedCalls ELSE m.failedCalls + 1,
         lastSuccessful |-> IF success THEN now ELSE m.lastSuccessful,
         lastError |-> IF success THEN m.lastError ELSE error,
         averageLatency |-> MovingAverage(m.averageLatency, total, duration)]

\* Mutant: a failure rate of exactly 0.5 still counts as healthy
isServiceHealthy_LaxRate(service) ==
    LET m == metrics[service]
        maxTotal == IF m.totalCalls > 1 THEN m.totalCalls ELSE 1
    IN  /\ (m.lastSuccessful = Unset) \/ (now - m.lastSuccessful < recentWindow)
        /\ 2 * m.failedCalls <= maxTotal
        /\ FracLess(m.averageLatency, maxAcceptableLatency)

isServiceHealthy(service) ==
    LET m == metrics[service]
        hasRecentSuccess == (m.lastSuccessful = Unset) \/ (now - m.lastSuccessful < recentWindow)
        maxTotal == IF m.totalCalls > 1 THEN m.totalCalls ELSE 1
        \* failedCalls / Math.max(totalCalls, 1) < 0.5
        lowFailureRate == 2 * m.failedCalls < maxTotal
        acceptableLatency == FracLess(m.averageLatency, maxAcceptableLatency)
    IN  hasRecentSuccess /\ lowFailureRate /\ acceptableLatency

\* The body of recordServiceCall(service, startTime, success, error)
RecordEffect(service, startTime, success, error) ==
    /\ metrics' = [metrics EXCEPT ![service] = RecordedMetrics(@, startTime, success, error)]
    /\ recorded' = IF service = svc
                   THEN Append(recorded, [success |-> success, duration |-> now - startTime])
                   ELSE recorded

RecordServiceCall(service, startTime, success, error) ==
    /\ RecordEffect(service, startTime, success, error)
    /\ UNCHANGED <<now, events, limiterVars, rlCalls, svc, callerVars, cacheVars, watch, probeVars, lifecycleVars>>

Tick(d) ==
    /\ now' = now + d
    /\ UNCHANGED <<telemetryVars, limiterVars, rlCalls, svc, callerVars, cacheVars, historyVars, probeVars, lifecycleVars>>

EventTypes == {"error", "warning", "info"}

LogEvent(type, service, message) ==
    /\ events' = Unshift(events, type, service, message)
    /\ UNCHANGED <<now, metrics, limiterVars, rlCalls, svc, callerVars, cacheVars, historyVars, probeVars,
                   lifecycleVars>>

\* clearMetrics(): every service back to initializeMetrics(), the buffer emptied
ClearMetrics ==
    /\ metrics' = [s \in Services |-> initializeMetrics]
    /\ events' = <<>>
    /\ recorded' = <<>>
    /\ UNCHANGED <<now, limiterVars, rlCalls, svc, callerVars, cacheVars, watch, probeVars, lifecycleVars>>

recentLimit == 10

\* Mutant: slice(-10), the ten oldest events of the service
RecentEvents_Oldest(evs, service) ==
    LET own == SelectSeq(evs, LAMBDA e : e.service = service)
    IN  SubSeq(own, IF Len(own) > recentLimit THEN Len(own) - recentLimit + 1 ELSE 1, Len(own))

\* this.events.filter(e => e.service === service).slice(0, 10)
RecentEvents(evs, service) ==
    LET own == SelectSeq(evs, LAMBDA e : e.service = service)
    IN  SubSeq(own, 1, IF Len(own) > recentLimit THEN recentLimit ELSE Len(own))

NoHealth ==
    [service |-> "none", healthy |-> TRUE, metrics |-> initializeMetrics,
     recentEvents |-> <<>>]

\* The snapshot getServiceHealth(service) returns
HealthSnapshot(service) ==
    [service |-> service, healthy |-> isServiceHealthy(service),
     metrics |-> metrics[service], recentEvents |-> RecentEvents(events, service)]

GetServiceHealth(service) ==
    /\ lastHealth' = HealthSnapshot(service)
    /\ UNCHANGED <<now, telemetryVars, limiterVars, rlCalls, svc, callerVars, cacheVars, historyVars, tCalls,
                   lifecycleVars>>

-----------------------------------------------------------------------------
(* withTelemetry(service, operation) *)

Results == {"result"}                    \* what operation() resolves with
Errors == {"timeout", "unavailable"}     \* the message of the error operation() rejects with

Pending == [kind |-> "pending", value |-> "none"]
Settlement(r) ==
    [kind |-> IF r \in Results THEN "resolved" ELSE "rejected", value |-> r]

\* const startTime = Date.now(); ... await operation(): operation() is started
\* inside the call and the caller resumes when its promise settles
NewTelemetryCall(service) ==
    [service |-> service, startTime |-> now, pc |-> "operation", operationRuns |-> 1,
     settled |-> Pending, outcome |-> Pending, endTime |-> 0]

WithTelemetryCall(service) ==
    /\ tCalls' = Append(tCalls, NewTelemetryCall(service))
    /\ UNCHANGED <<now, telemetryVars, limiterVars, rlCalls, svc, callerVars, cacheVars, historyVars, lastHealth,
                   lifecycleVars>>

\* Mutant: recordServiceCall(service, startTime, true) sits after the try block
SettledSuccess_Always(r) == TRUE

\* The `success` argument withTelemetry passes to recordServiceCall
SettledSuccess(r) == r \in Results

\* The catch block logs the error; the try block logs nothing
SettledEvents(c, r) ==
    IF r \in Results THEN events ELSE Unshift(events, "error", c.service, r)

\* withTelemetry returns the result, or rethrows the error it caught
SettledCall(c, r) ==
    [c EXCEPT !.pc = "done", !.settled = Settlement(r), !.outcome = Settlement(r),
              !.endTime = now]

\* operation() settles with r: the rest of withTelemetry runs in one turn
WithTelemetrySettle(i, r) ==
    /\ i \in 1..Len(tCalls)
    /\ tCalls[i].pc = "operation"
    /\ RecordEffect(tCalls[i].service, tCalls[i].startTime, SettledSuccess(r),
                    IF r \in Results THEN NoError ELSE r)
    /\ events' = SettledEvents(tCalls[i], r)
    /\ tCalls' = [tCalls EXCEPT ![i] = SettledCall(@, r)]
    /\ UNCHANGED <<now, limiterVars, rlCalls, svc, callerVars, cacheVars, watch, lastHealth, lifecycleVars>>

-----------------------------------------------------------------------------
(* RateLimiter *)

windowLength == 60000
burstWindowLength == 1000
highLatency == 2000

DEFAULT_LIMITS ==
    [s \in Services |->
        CASE s = "openai" ->
                 [maxRequestsPerMinute |-> 60, burstLimit |-> 10, cooldownPeriod |-> 60000]
          [] s = "vectorStore" ->
                 [maxRequestsPerMinute |-> 100, burstLimit |-> 20, cooldownPeriod |-> 30000]
          [] s = "documentation" ->
                 [maxRequestsPerMinute |-> 120, burstLimit |-> 30, cooldownPeriod |-> 15000]]

createInitialState ==
    [requests |-> 0, lastReset |-> now, burstCount |-> 0, lastBurstReset |-> now,
     isThrottled |-> FALSE, cooldownUntil |-> 0]

WindowOver(st) == now - st.lastReset >= windowLength
BurstWindowOver(st) == now - st.lastBurstReset >= burstWindowLength
CooldownOver(st) == st.isThrottled /\ now >= st.cooldownUntil

\* The RateLimitState after resetCounters(service)
ResetState(st) ==
    LET s1 == IF WindowOver(st) THEN [st EXCEPT !.requests = 0, !.lastReset = now] ELSE st
        s2 == IF BurstWindowOver(s1)
              THEN [s1 EXCEPT !.burstCount = 0, !.lastBurstReset = now] ELSE s1
    IN  IF CooldownOver(s2) THEN [s2 EXCEPT !.isThrottled = FALSE] ELSE s2

\* The event buffer after resetCounters(service)
ResetEvents(evs, service) ==
    IF CooldownOver(rlState[service])
    THEN Unshift(evs, "info", service, "Rate limit cooldown period ended")
    ELSE evs

\* Math.floor(x * 0.5) and Math.floor(x * 0.8) on a non-negative integer x
Reduce(x, healthy) == IF healthy THEN (x * 4) \div 5 ELSE x \div 2

\* adjustLimits: `reduces` is its condition, AdjustedLimits the limits[service] it stores
MustReduce(service) ==
    \/ ~isServiceHealthy(service)
    \/ FracGreater(metrics[service].averageLatency, highLatency)

AdjustedLimits(service) ==
    LET currentLimit == limits[service]
        healthy == isServiceHealthy(service)
    IN  IF MustReduce(service)
        THEN [maxRequestsPerMinute |-> Reduce(currentLimit.maxRequestsPerMinute, healthy),
              burstLimit |-> Reduce(currentLimit.burstLimit, healthy),
              cooldownPeriod |-> currentLimit.cooldownPeriod * 2]
        ELSE DEFAULT_LIMITS[service]

AdjustEvents(evs, service) ==
    IF MustReduce(service)
    THEN Unshift(evs, "warning", service, "Rate limits reduced due to service health")
    ELSE evs

\* Mutant: the per-minute test is > instead of >=
CheckOutcome_StrictMinute(service) ==
    LET st == ResetState(rlState[service])
        lim == AdjustedLimits(service)
    IN  IF st.isThrottled THEN "throttled"
        ELSE IF st.requests > lim.maxRequestsPerMinute THEN "minute"
        ELSE IF st.burstCount >= lim.burstLimit THEN "burst"
        ELSE "admitted"

\* Mutant: the burst test is > instead of >=
CheckOutcome_StrictBurst(service) ==
    LET st == ResetState(rlState[service])
        lim == AdjustedLimits(service)
    IN  IF st.isThrottled THEN "throttled"
        ELSE IF st.requests >= lim.maxRequestsPerMinute THEN "minute"
        ELSE IF st.burstCount > lim.burstLimit THEN "burst"
        ELSE "admitted"

\* Which return statement of checkRateLimit(service) is taken
CheckOutcome(service) ==
    LET st == ResetState(rlState[service])
        lim == AdjustedLimits(service)
    IN  IF st.isThrottled THEN "throttled"
        ELSE IF st.requests >= lim.maxRequestsPerMinute THEN "minute"
        ELSE IF st.burstCount >= lim.burstLimit THEN "burst"
        ELSE "admitted"

\* Mutant: a burst denial sets the full cooldown period
CheckedState_FullCooldown(service) ==
    LET st == ResetState(rlState[service])
        lim == AdjustedLimits(service)
        outcome == CheckOutcome(service)
    IN  CASE outcome = "throttled" -> st
          [] outcome \in {"minute", "burst"} ->
                 [st EXCEPT !.isThrottled = TRUE, !.cooldownUntil = now + lim.cooldownPeriod]
          [] outcome = "admitted" ->
                 [st EXCEPT !.requests = @ + 1, !.burstCount = @ + 1]

\* Mutant: the counters are incremented before the throttle test, so a check
\* made during a cooldown is counted too
CheckedState_CountsThrottled(service) ==
    LET st == ResetState(rlState[service])
        lim == AdjustedLimits(service)
        outcome == CheckOutcome(service)
    IN  CASE outcome = "throttled" ->
                 [st EXCEPT !.requests = @ + 1, !.burstCount = @ + 1]
          [] outcome = "minute" ->
                 [st EXCEPT !.isThrottled = TRUE, !.cooldownUntil = now + lim.cooldownPeriod]
          [] outcome = "burst" ->
                 [st EXCEPT !.isThrottled = TRUE,
                            !.cooldownUntil = now + (lim.cooldownPeriod \div 2)]
          [] outcome = "admitted" ->
                 [st EXCEPT !.requests = @ + 1, !.burstCount = @ + 1]

\* The RateLimitState that checkRateLimit(service) leaves
CheckedState(service) ==
    LET st == ResetState(rlState[service])
        lim == AdjustedLimits(service)
        outcome == CheckOutcome(service)
    IN  CASE outcome = "throttled" -> st
          [] outcome = "minute" ->
                 [st EXCEPT !.isThrottled = TRUE, !.cooldownUntil = now + lim.cooldownPeriod]
          [] outcome = "burst" ->
                 [st EXCEPT !.isThrottled = TRUE,
                            !.cooldownUntil = now + (lim.cooldownPeriod \div 2)]
          [] outcome = "admitted" ->
                 [st EXCEPT !.requests = @ + 1, !.burstCount = @ + 1]

CheckedEvents(service) ==
    LET evs == AdjustEvents(ResetEvents(events, service), service)
        outcome == CheckOutcome(service)
    IN  CASE outcome = "minute" ->
                 Unshift(evs, "warning", service, "Rate limit exceeded (per minute)")
          [] outcome = "burst" -> Unshift(evs, "warning", service, "Burst limit exceeded")
          [] OTHER -> evs

-----------------------------------------------------------------------------
(* History of the checkRateLimit(svc) calls, kept for the properties only.  *)
(* winChecks / burstChecks count the checks made since the window / burst   *)
(* counter was last reset, as long as each of them found svc healthy with   *)
(* low latency and none was denied for another reason than the limit that   *)
(* is being counted (winClean / burstClean).  denied is set by a per-minute *)
(* denial (denied* describe it) and cleared by the first check made after   *)
(* its cooldown; rec* describe that check.                                  *)

NoWatch ==
    [lastOutcome |-> "none",
     winChecks |-> 0, winClean |-> TRUE,
     burstChecks |-> 0, burstClean |-> TRUE,
     denied |-> FALSE, deniedWindow |-> 0, deniedAt |-> 0, deniedState |-> createInitialState,
     recMade |-> FALSE, recWindowOver |-> FALSE, recBaseHealth |-> FALSE,
     recOutcome |-> "none", recRequests |-> 0]

BaseHealth(service) == ~MustReduce(service)

\* resetCounters(svc) starts a new window and / or a new burst window
WatchReset(w, st) ==
    LET w1 == IF WindowOver(st) THEN [w EXCEPT !.winChecks = 0, !.winClean = TRUE] ELSE w
    IN  IF BurstWindowOver(st)
        THEN [w1 EXCEPT !.burstChecks = 0, !.burstClean = TRUE] ELSE w1

WatchCheck(w, service) ==
    LET st == rlState[service]
        w0 == WatchReset(w, st)
        outcome == CheckOutcome(service)
        base == BaseHealth(service)
        winOk == w0.winClean /\ base /\ outcome \in {"admitted", "minute"}
        burstOk == w0.burstClean /\ base /\ outcome \in {"admitted", "burst"}
        recovery == w0.denied /\ now >= st.cooldownUntil
        w1 == [w0 EXCEPT !.lastOutcome = outcome,
                         !.winChecks = IF winOk THEN @ + 1 ELSE 0,
                         !.winClean = winOk,
                         !.burstChecks = IF burstOk THEN @ + 1 ELSE 0,
                         !.burstClean = burstOk]
        w2 == IF recovery
              THEN [w1 EXCEPT !.denied = FALSE,
                              !.recMade = TRUE,
                              !.recWindowOver = (now - w0.deniedWindow >= windowLength),
                              !.recBaseHealth = base,
                              !.recOutcome = outcome,
                              !.recRequests = CheckedState(service).requests]
              ELSE w1
    IN  IF outcome = "minute" /\ base
        THEN [w2 EXCEPT !.denied = TRUE, !.deniedWindow = CheckedState(service).lastReset,
                        !.deniedAt = now, !.deniedState = CheckedState(service)]
        ELSE w2

-----------------------------------------------------------------------------
(* RateLimiter operations *)

\* Mutant: the constructor keeps the table itself, this.limits = DEFAULT_LIMITS,
\* so this.limits[service] = config writes into DEFAULT_LIMITS
AssignedBase_SharedTable(base, service, config) == [base EXCEPT ![service] = config]

\* DEFAULT_LIMITS after this.limits[service] = config: the constructor made
\* this.limits a table of its own, { ...DEFAULT_LIMITS }, and adjustLimits
\* stores a new object
AssignedBase(base, service, config) == base

\* The body of checkRateLimit(service): resetCounters, adjustLimits, the three tests
CheckEffect(service) ==
    /\ rlState' = [rlState EXCEPT ![service] = CheckedState(service)]
    /\ limits' = [limits EXCEPT ![service] = AdjustedLimits(service)]
    /\ baseLimits' = AssignedBase(baseLimits, service, AdjustedLimits(service))
    /\ events' = CheckedEvents(service)
    /\ watch' = IF service = svc THEN WatchCheck(watch, service) ELSE watch

CheckRateLimit(service) ==
    /\ CheckEffect(service)
    /\ UNCHANGED <<now, metrics, rlCalls, svc, callerVars, cacheVars, recorded, probeVars, lifecycleVars>>

GetRateLimitInfo(service) ==
    /\ rlState' = [rlState EXCEPT ![service] = ResetState(@)]
    /\ events' = ResetEvents(events, service)
    /\ watch' = IF service = svc THEN WatchReset(watch, rlState[service]) ELSE watch
    /\ UNCHANGED <<now, metrics, limits, baseLimits, rlCalls, svc, callerVars, cacheVars, recorded,
                   probeVars, lifecycleVars>>

-----------------------------------------------------------------------------
(* withRateLimit(service, operation, fallback?) *)

NewCall(service, hasFallback, canProceed) ==
    [service |-> service, hasFallback |-> hasFallback, canProceed |-> canProceed,
     pc |-> "awaitCheck", operationRuns |-> 0, fallbackRuns |-> 0,
     fallbackSaw |-> "none", outcome |-> "pending"]

\* const canProceed = await rateLimiter.checkRateLimit(service): the check runs
\* inside the call, the caller resumes in a later turn
WithRateLimitCall(service, hasFallback) ==
    /\ CheckEffect(service)
    /\ rlCalls' = Append(rlCalls,
                         NewCall(service, hasFallback, CheckOutcome(service) = "admitted"))
    /\ UNCHANGED <<now, metrics, svc, callerVars, cacheVars, recorded, probeVars, lifecycleVars>>

\* Mutant: operation() is started before the result of the check is looked at
ResumedCall_AlwaysRuns(c, evs) ==
    IF ~c.canProceed
    THEN IF c.hasFallback
         THEN [c EXCEPT !.pc = "fallback", !.fallbackRuns = @ + 1, !.operationRuns = @ + 1,
                        !.fallbackSaw = IF Len(evs) > 0 THEN evs[1].message ELSE "none"]
         ELSE [c EXCEPT !.pc = "done", !.outcome = "Rate limit exceeded",
                        !.operationRuns = @ + 1]
    ELSE [c EXCEPT !.pc = "operation", !.operationRuns = @ + 1]

\* The call after the await, up to the point where operation() or fallback() is pending
ResumedCall(c, evs) ==
    IF ~c.canProceed
    THEN IF c.hasFallback
         THEN [c EXCEPT !.pc = "fallback", !.fallbackRuns = @ + 1,
                        !.fallbackSaw = IF Len(evs) > 0 THEN evs[1].message ELSE "none"]
         ELSE [c EXCEPT !.pc = "done", !.outcome = "Rate limit exceeded"]
    ELSE [c EXCEPT !.pc = "operation", !.operationRuns = @ + 1]

ResumedEvents(c) ==
    IF ~c.canProceed /\ c.hasFallback
    THEN Unshift(events, "info", c.service, "Using fallback due to rate limiting")
    ELSE events

WithRateLimitResume(i) ==
    /\ i \in 1..Len(rlCalls)
    /\ rlCalls[i].pc = "awaitCheck"
    /\ events' = ResumedEvents(rlCalls[i])
    /\ rlCalls' = [rlCalls EXCEPT ![i] = ResumedCall(@, ResumedEvents(rlCalls[i]))]
    /\ UNCHANGED <<now, metrics, limiterVars, svc, callerVars, cacheVars, historyVars, probeVars, lifecycleVars>>

\* operation() or fallback() settles; withRateLimit returns its promise unchanged
WithRateLimitSettle(i, ok) ==
    /\ i \in 1..Len(rlCalls)
    /\ rlCalls[i].pc \in {"operation", "fallback"}
    /\ rlCalls' = [rlCalls EXCEPT ![i] = [@ EXCEPT !.pc = "done",
                       !.outcome = IF ok THEN "resolved" ELSE "rejected"]]
    /\ UNCHANGED <<now, telemetryVars, limiterVars, svc, callerVars, cacheVars, historyVars, probeVars, lifecycleVars>>

-----------------------------------------------------------------------------
(* ServiceManager: initialize, the periodic health sweep, recovery, shutdown *)

maxRetries == 3
retryDelay == 5000
sweepPeriod == 30000
NoTimer == 0

initialState ==
    [vectorStore |-> FALSE, documentation |-> FALSE, retryCount |-> 0, lastError |-> NoError]

Dependencies == {"vectorStore", "documentation"}

\* const services = ['vectorStore', 'documentation', 'openai']
ServiceOrder == <<"vectorStore", "documentation", "openai">>

\* PineconeStore.fromTexts (inside createVectorStore) and the fetch of
\* verifyOpenAIAccess are outside the model: each is a promise that settles with
\* a result or with an error.  A step that settles one runs every continuation
\* that waits for nothing else.  DocumentationProcessor.initialize waits for
\* nothing outside the program, so initializeDocumentation runs within one step.

Ready(st, dep) == [st EXCEPT ![dep] = TRUE]
NotReady(st, dep, error) == [st EXCEPT ![dep] = FALSE, !.lastError = error]

InitializedMessage(dep) ==
    IF dep = "vectorStore" THEN "Vector store initialized"
    ELSE "Documentation service initialized"

FailedMessage(dep, error) ==
    IF dep = "vectorStore" THEN "Vector store initialization failed: " \o error
    ELSE "Documentation initialization failed: " \o error

\* The telemetry singleton as one value, to follow the calls made within one step
TelemetryNow == [metrics |-> metrics, events |-> events, recorded |-> recorded]

\* recordServiceCall(service, startTime, success, error) on tel
Recorded(tel, service, startTime, success, error) ==
    [tel EXCEPT !.metrics[service] = RecordedMetrics(@, startTime, success, error),
                !.recorded = IF service = svc
                             THEN Append(@, [success |-> success, duration |-> now - startTime])
                             ELSE @]

\* logEvent(type, service, message) on tel
Logged(tel, type, service, message) ==
    [tel EXCEPT !.events = Unshift(@, type, service, message)]

\* withTelemetry(service, operation) from the point where operation() has settled with r
Telemetered(tel, service, startTime, r) ==
    IF SettledSuccess(r)
    THEN Recorded(tel, service, startTime, TRUE, NoError)
    ELSE Logged(Recorded(tel, service, startTime, FALSE, r), "error", service, r)

\* createVectorStore([], []) from the point where PineconeStore.fromTexts has settled with r
CreatedVectorStore(tel, startTime, r) ==
    Telemetered(IF r \in Results
                THEN Logged(tel, "info", "vectorStore", "Created vector store with 0 documents")
                ELSE Logged(tel, "error", "vectorStore", "Error creating vector store: " \o r),
                "vectorStore", startTime, r)

\* initializeVectorStore() from that point on: x holds the telemetry and
\* ServiceManager.state it started from
InitializedVectorStore(x, startTime, r) ==
    LET tel == Telemetered(CreatedVectorStore(x.tel, startTime, r), "vectorStore", startTime, r)
    IN  IF r \in Results
        THEN [x EXCEPT !.tel = Logged(tel, "info", "vectorStore", InitializedMessage("vectorStore")),
                       !.state = Ready(x.state, "vectorStore")]
        ELSE [x EXCEPT !.tel = Logged(tel, "error", "vectorStore", FailedMessage("vectorStore", r)),
                       !.state = NotReady(x.state, "vectorStore", r)]

\* commonPatterns.length in loadCommonPatterns
commonPatterns == 7

\* queryDocumentation of a DocumentationProcessor whose vectorStore is null
NotInitialized == "Vector store not initialized"

\* n findDocumentation(pattern) calls of a new DocumentationProcessor: each
\* queryDocumentation throws, withTelemetry records it, findDocumentation returns null
RECURSIVE FoundDocumentation(_, _)
FoundDocumentation(tel, n) ==
    IF n = 0 THEN tel
    ELSE FoundDocumentation(Telemetered(tel, "documentation", now, NotInitialized), n - 1)

\* initializeDocumentation(): loadCommonPatterns, then the withTelemetry of
\* DocumentationProcessor.initialize and the one of initializeDocumentation succeed
InitializedDocumentation(x) ==
    LET loaded == FoundDocumentation(x.tel, commonPatterns)
        processor == Telemetered(loaded, "documentation", now, "result")
        tel == Telemetered(processor, "documentation", now, "result")
    IN  [x EXCEPT !.tel = Logged(tel, "info", "documentation",
                                 InitializedMessage("documentation")),
                  !.state = Ready(x.state, "documentation")]

\* History of the lifecycle.  failedInRow: per service, the recovery attempts
\* that have failed in a row since the last explicit initialize() call (3 stands
\* for 3 or more).  down: shutdown() has returned and initialize() has not been
\* called since.  rearmed: an initialize() called while the retries were used up
\* has succeeded, and since then there was no shutdown() and no sweep has invoked
\* a collaborator.
NoLifeHist ==
    [failedInRow |-> [s \in Services |-> 0], down |-> FALSE, rearmed |-> FALSE]

\* lifeHist after a sweep has invoked the collaborator of a service
InvokedHist(h) == [h EXCEPT !.rearmed = FALSE]

\* lifeHist after the recovery of s has seen its collaborator settle with r
SettledHist(h, s, r) ==
    [h EXCEPT !.failedInRow[s] = IF r \in Results THEN 0 ELSE IF @ < 3 THEN @ + 1 ELSE 3]

\* initialize(): runs up to the await inside createVectorStore.  exhausted is
\* history: whether the retries were used up when the call was made
NewInitialize ==
    [pc |-> "vectorStore", startTime |-> now, attempted |-> {"vectorStore"},
     outcome |-> Pending, armed |-> NoTimer, exhausted |-> smState.retryCount >= maxRetries]

InitializeCall ==
    /\ initCalls' = Append(initCalls, NewInitialize)
    /\ lifeHist' = [lifeHist EXCEPT !.failedInRow = NoLifeHist.failedInRow, !.down = FALSE]
    /\ UNCHANGED <<now, telemetryVars, limiterVars, rlCalls, svc, callerVars, cacheVars, historyVars, probeVars,
                   smState, healthCheckInterval, timers, sweeps>>

\* startHealthCheck(): the interval of call i replaces the one held in healthCheckInterval
StartedTimers(i) ==
    {t \in timers : t.id # healthCheckInterval} \cup {[id |-> i, due |-> now + sweepPeriod]}

\* Mutant: startHealthCheck() is called before the dependencies are initialized,
\* so a failing initialize() has armed the sweep as well
InitializedCall_ArmsAlways(c, i, r) ==
    IF r \notin Results
    THEN [c EXCEPT !.pc = "done", !.outcome = Settlement(r), !.armed = i]
    ELSE [c EXCEPT !.pc = "done", !.attempted = @ \cup {"documentation"},
                   !.outcome = [kind |-> "resolved", value |-> "none"], !.armed = i]

\* The initialize() call i after PineconeStore.fromTexts has settled with r
InitializedCall(c, i, r) ==
    IF r \notin Results
    THEN [c EXCEPT !.pc = "done", !.outcome = Settlement(r)]
    ELSE [c EXCEPT !.pc = "done", !.attempted = @ \cup {"documentation"},
                   !.outcome = [kind |-> "resolved", value |-> "none"], !.armed = i]

\* The telemetry and ServiceManager.state that initialize() call c leaves
InitializedServices(c, r) ==
    LET store == InitializedVectorStore([tel |-> TelemetryNow, state |-> smState],
                                        c.startTime, r)
    IN  IF r \notin Results
        THEN [store EXCEPT !.tel = Logged(@, "error", "documentation",
                                          "Service initialization failed: " \o r)]
        ELSE [InitializedDocumentation(store)
                 EXCEPT !.tel = Logged(@, "info", "documentation",
                                       "Services initialized successfully")]

InitializeSettle(i, r) ==
    /\ i \in 1..Len(initCalls)
    /\ initCalls[i].pc = "vectorStore"
    /\ LET done == InitializedServices(initCalls[i], r)
       IN  /\ metrics' = done.tel.metrics
           /\ events' = done.tel.events
           /\ recorded' = done.tel.recorded
           /\ smState' = done.state
    /\ initCalls' = [initCalls EXCEPT ![i] = InitializedCall(@, i, r)]
    /\ timers' = IF InitializedCall(initCalls[i], i, r).armed # NoTimer
                 THEN StartedTimers(i) ELSE timers
    /\ healthCheckInterval' = IF InitializedCall(initCalls[i], i, r).armed # NoTimer
                              THEN i ELSE healthCheckInterval
    /\ lifeHist' = IF /\ InitializedCall(initCalls[i], i, r).armed # NoTimer
                      /\ initCalls[i].exhausted
                   THEN [lifeHist EXCEPT !.rearmed = TRUE] ELSE lifeHist
    /\ UNCHANGED <<now, limiterVars, rlCalls, svc, callerVars, cacheVars, watch, probeVars, sweeps>>

\* shutdown()
Shutdown ==
    /\ timers' = {t \in timers : t.id # healthCheckInterval}
    /\ healthCheckInterval' = NoTimer
    /\ smState' = initialState
    /\ events' = Unshift(events, "info", "documentation", "Services shut down")
    /\ lifeHist' = [lifeHist EXCEPT !.down = TRUE, !.rearmed = FALSE]
    /\ UNCHANGED <<now, metrics, limiterVars, rlCalls, svc, callerVars, cacheVars, historyVars, probeVars,
                   initCalls, sweeps>>

\* One run of checkServicesHealth().  found, recoveries, inits and attempt are
\* history: per service, the health getServiceHealth reported when the run
\* examined it, the attemptServiceRecovery calls made and the invocations of the
\* service's collaborator; attempt is the number the latest recovery of the run
\* logged for itself, retryCount right after its increment.
NewSweep(timer) ==
    [timer |-> timer, pc |-> "examine", idx |-> 1, startTime |-> 0, wakeAt |-> 0,
     found |-> [s \in Services |-> "unexamined"],
     recoveries |-> [s \in Services |-> 0],
     inits |-> [s \in Services |-> 0],
     attempt |-> 0]

\* Mutant: the sweep asks ServiceManager.isServiceHealthy, the readiness flag
SweepNeedsRecovery_ByReadiness(s) ==
    IF s \in Dependencies THEN ~smState[s] ELSE ~isServiceHealthy(s)

\* if (!health.healthy)
SweepNeedsRecovery(s) == ~isServiceHealthy(s)

\* Mutant: retryCount > maxRetries
RecoveryExhausted_Strict(st) == st.retryCount > maxRetries

\* if (this.state.retryCount >= this.maxRetries)
RecoveryExhausted(st) == st.retryCount >= maxRetries

AttemptMessage(retryCount) ==
    "Attempting service recovery (attempt " \o ToString(retryCount) \o "/"
        \o ToString(maxRetries) \o ")"

\* attemptServiceRecovery(s) from the point where the init of s has succeeded
Recovered(x, s) ==
    [x EXCEPT !.state.retryCount = 0,
              !.tel = Logged(@, "info", s, "Service recovered successfully"),
              !.hist = SettledHist(@, s, "result")]

\* attemptServiceRecovery(s) from the point where the init of s has thrown r,
\* up to the backoff sleep
RecoveryFailed(x, s, r) ==
    [x EXCEPT !.tel = Logged(@, "error", s, "Recovery attempt failed: " \o r),
              !.hist = SettledHist(@, s, r)]

\* The loop of checkServicesHealth from the k-th service on, up to the first
\* collaborator it has to wait for: the sweep, and the telemetry,
\* ServiceManager.state and history it leaves.  The loop examines a service
\* before the step has recorded any call for that service.
RECURSIVE RunSweep(_, _, _)
RunSweep(sw, k, x) ==
    IF k > Len(ServiceOrder)
    THEN [sweep |-> [sw EXCEPT !.pc = "done", !.idx = k], out |-> x]
    ELSE LET s == ServiceOrder[k]
             seen == [sw EXCEPT !.found[s] =
                          IF isServiceHealthy(s) THEN "healthy" ELSE "unhealthy"]
         IN  IF ~SweepNeedsRecovery(s)
             THEN RunSweep(seen, k + 1, x)
             ELSE LET warned == [x EXCEPT !.tel = Logged(@, "warning", s,
                                                         "Service unhealthy: " \o s)]
                      called == [seen EXCEPT !.recoveries[s] = @ + 1]
                      invoked == [called EXCEPT !.inits[s] = @ + 1,
                                                !.attempt = x.state.retryCount + 1]
                      trying == [warned EXCEPT
                                    !.state.retryCount = @ + 1,
                                    !.tel = Logged(@, "info", s,
                                                   AttemptMessage(x.state.retryCount + 1)),
                                    !.hist = InvokedHist(@)]
                  IN  IF RecoveryExhausted(x.state)
                      THEN RunSweep(called, k + 1,
                                    [warned EXCEPT !.tel = Logged(@, "error", s,
                                                                  "Max retry attempts reached")])
                      ELSE IF s = "documentation"
                      THEN RunSweep(invoked, k + 1,
                                    Recovered(InitializedDocumentation(trying), s))
                      ELSE [sweep |-> [invoked EXCEPT !.pc = "init", !.idx = k,
                                                      !.startTime = now],
                            out |-> trying]

\* What a step of a sweep starts from
SweepFrom == [tel |-> TelemetryNow, state |-> smState, hist |-> lifeHist]

\* What a step of a sweep leaves
SweepEffect(x) ==
    /\ metrics' = x.tel.metrics
    /\ events' = x.tel.events
    /\ recorded' = x.tel.recorded
    /\ smState' = x.state
    /\ lifeHist' = x.hist

\* The interval fires: the callback runs checkServicesHealth() up to its first await
SweepStart(t) ==
    /\ t \in timers
    /\ now >= t.due
    /\ timers' = (timers \ {t}) \cup {[id |-> t.id, due |-> now + sweepPeriod]}
    /\ LET run == RunSweep(NewSweep(t.id), 1, SweepFrom)
       IN  /\ sweeps' = Append(sweeps, run.sweep)
           /\ SweepEffect(run.out)
    /\ UNCHANGED <<now, limiterVars, rlCalls, svc, callerVars, cacheVars, watch, probeVars,
                   healthCheckInterval, initCalls>>

\* retryDelay * Math.pow(2, retryCount - 1); 2 ** -1 is 0.5
BackoffDelay(retryCount) ==
    IF retryCount = 0 THEN retryDelay \div 2 ELSE retryDelay * 2 ^ (retryCount - 1)

\* initializeVectorStore() or verifyOpenAIAccess() of a recovery, from the point
\* where the collaborator has settled with r
RecoveryInit(x, s, startTime, r) ==
    IF s = "vectorStore" THEN InitializedVectorStore(x, startTime, r)
    ELSE IF r \in Results
    THEN [x EXCEPT !.tel = Logged(@, "info", s, "OpenAI API access verified")]
    ELSE [x EXCEPT !.tel = Logged(@, "error", s, "OpenAI API check failed: " \o r)]

\* The collaborator that sweep i waits for settles with r: attemptServiceRecovery
\* finishes and the loop goes on, or the backoff sleep starts
SweepSettle(i, r) ==
    /\ i \in 1..Len(sweeps)
    /\ sweeps[i].pc = "init"
    /\ LET sw == sweeps[i]
           s == ServiceOrder[sw.idx]
           init == RecoveryInit(SweepFrom, s, sw.startTime, r)
       IN  IF r \in Results
           THEN LET run == RunSweep(sw, sw.idx + 1, Recovered(init, s))
                IN  /\ sweeps' = [sweeps EXCEPT ![i] = run.sweep]
                    /\ SweepEffect(run.out)
           ELSE /\ sweeps' = [sweeps EXCEPT ![i] =
                       [sw EXCEPT !.pc = "sleep",
                                  !.wakeAt = now + BackoffDelay(init.state.retryCount)]]
                /\ SweepEffect(RecoveryFailed(init, s, r))
    /\ UNCHANGED <<now, limiterVars, rlCalls, svc, callerVars, cacheVars, watch, probeVars, healthCheckInterval,
                   timers, initCalls>>

\* The backoff sleep of sweep i is over: its loop goes on with the next service
SweepWake(i) ==
    /\ i \in 1..Len(sweeps)
    /\ sweeps[i].pc = "sleep"
    /\ now >= sweeps[i].wakeAt
    /\ LET run == RunSweep(sweeps[i], sweeps[i].idx + 1, SweepFrom)
       IN  /\ sweeps' = [sweeps EXCEPT ![i] = run.sweep]
           /\ SweepEffect(run.out)
    /\ UNCHANGED <<now, limiterVars, rlCalls, svc, callerVars, cacheVars, watch, probeVars,
                   healthCheckInterval, timers, initCalls>>

-----------------------------------------------------------------------------
(* useHintCache(options): get, set, invalidate, clear on a Map *)

\* ttl: 5 * 60 * 1000, maxEntries: 100
DEFAULT_OPTIONS == [ttl |-> 300000, maxEntries |-> 100]

\* An option that is left out; a number that is 0 is falsy as well
NoOption == 0

\* ttl || DEFAULT_OPTIONS.ttl!, maxEntries || DEFAULT_OPTIONS.maxEntries!
EffectiveTtl ==
    IF cacheOptions.ttl = NoOption THEN DEFAULT_OPTIONS.ttl ELSE cacheOptions.ttl
EffectiveMaxEntries ==
    IF cacheOptions.maxEntries = NoOption THEN DEFAULT_OPTIONS.maxEntries
    ELSE cacheOptions.maxEntries

CacheKeys == {"k1", "k2", "k3"}     \* the keys the callers use
CacheData == {"d1", "d2"}           \* the values they store
Miss == "null"

\* The Map is the sequence of its entries in iteration order, each with its key
HasKey(c, key) == \E n \in 1..Len(c) : c[n].key = key
EntryOf(c, key) == c[CHOOSE n \in 1..Len(c) : c[n].key = key]

\* Map.delete(key)
MapDelete(c, key) == SelectSeq(c, LAMBDA e : e.key # key)

\* Map.set(key, value): a key that is present keeps its place in the order
MapSet(c, key, entry) ==
    IF HasKey(c, key)
    THEN [n \in 1..Len(c) |-> IF c[n].key = key THEN entry ELSE c[n]]
    ELSE Append(c, entry)

\* cache.keys().next().value, then cache.delete(oldestKey)
EvictOldest(c) == IF Len(c) > 0 THEN MapDelete(c, c[1].key) ELSE c

\* Mutant: the full cache is not made smaller before the new entry goes in
SetCache_NoEviction(c, key, data) ==
    MapSet(c, key, [key |-> key, data |-> data, timestamp |-> now])

\* The Map after set(key, data)
SetCache(c, key, data) ==
    MapSet(IF Len(c) >= EffectiveMaxEntries THEN EvictOldest(c) ELSE c,
           key, [key |-> key, data |-> data, timestamp |-> now])

\* Date.now() - entry.timestamp > ttl
Expired(e) == now - e.timestamp > EffectiveTtl

\* Mutant: a hit refreshes the timestamp of the entry
GetCache_Refreshes(c, key) ==
    IF ~HasKey(c, key) THEN c
    ELSE IF Expired(EntryOf(c, key)) THEN MapDelete(c, key)
    ELSE MapSet(c, key, [EntryOf(c, key) EXCEPT !.timestamp = now])

\* The Map after get(key)
GetCache(c, key) ==
    IF HasKey(c, key) /\ Expired(EntryOf(c, key)) THEN MapDelete(c, key) ELSE c

\* What get(key) returns
GetResult(c, key) ==
    IF ~HasKey(c, key) THEN Miss
    ELSE IF Expired(EntryOf(c, key)) THEN Miss
    ELSE EntryOf(c, key).data

\* History of the cache: per key the time and data of its latest set (time 0:
\* never set) and the hits since that set (2 stands for 2 or more); the number
\* of set calls made on a full cache
NoGet == [key |-> "none", result |-> Miss]
NoCacheHist ==
    [lastSet |-> [k \in CacheKeys |-> [time |-> 0, data |-> Miss]],
     hits |-> [k \in CacheKeys |-> 0],
     setsWhenFull |-> 0]

CacheSet(key, data) ==
    /\ cache' = SetCache(cache, key, data)
    /\ cacheHist' = [cacheHist EXCEPT
                        !.lastSet[key] = [time |-> now, data |-> data],
                        !.hits[key] = 0,
                        !.setsWhenFull = IF Len(cache) >= EffectiveMaxEntries
                                         THEN @ + 1 ELSE @]
    /\ UNCHANGED <<now, telemetryVars, limiterVars, rlCalls, svc, callerVars, historyVars, probeVars,
                   lifecycleVars, cacheOptions, cacheOut>>

CacheGet(key) ==
    /\ cache' = GetCache(cache, key)
    /\ cacheOut' = [key |-> key, result |-> GetResult(cache, key)]
    /\ cacheHist' = IF GetResult(cache, key) # Miss /\ cacheHist.hits[key] < 2
                    THEN [cacheHist EXCEPT !.hits[key] = @ + 1] ELSE cacheHist
    /\ UNCHANGED <<now, telemetryVars, limiterVars, rlCalls, svc, callerVars, historyVars, probeVars,
                   lifecycleVars, cacheOptions>>

CacheInvalidate(key) ==
    /\ cache' = MapDelete(cache, key)
    /\ UNCHANGED <<now, telemetryVars, limiterVars, rlCalls, svc, callerVars, historyVars, probeVars,
                   lifecycleVars, cacheOptions, cacheOut, cacheHist>>

CacheClear ==
    /\ cache' = <<>>
    /\ UNCHANGED <<now, telemetryVars, limiterVars, rlCalls, svc, callerVars, historyVars, probeVars,
                   lifecycleVars, cacheOptions, cacheOut, cacheHist>>

\* useHintCache(options) as a component calls it: an empty Map
Mounted(options) ==
    /\ cache = <<>>
    /\ cacheOptions = options
    /\ cacheOut = NoGet
    /\ cacheHist = NoCacheHist

\* const hintCache = useHintCache<CachedHint>()
HintPopoverOptions == [ttl |-> NoOption, maxEntries |-> NoOption]

-----------------------------------------------------------------------------
(* Initial state: the singletons as their constructors leave them *)

\* private static instance: ServiceManager, declared without an initializer
NoInstance == "undefined"

Singletons ==
    /\ now = StartTime
    /\ events = <<>>
    /\ metrics = [s \in Services |-> initializeMetrics]
    /\ limits = DEFAULT_LIMITS
    /\ rlState = [s \in Services |-> createInitialState]
    /\ baseLimits = DEFAULT_LIMITS
    /\ rlCalls = <<>>
    /\ svc \in Services
    /\ recorded = <<>>
    /\ watch = NoWatch
    /\ tCalls = <<>>
    /\ lastHealth = NoHealth
    /\ smState = initialState
    /\ healthCheckInterval = NoTimer
    /\ timers = {}
    /\ initCalls = <<>>
    /\ sweeps = <<>>
    /\ lifeHist = NoLifeHist
    /\ instance = NoInstance
    /\ getCalls = <<>>
    /\ analyses = <<>>

Constructed ==
    /\ Singletons
    /\ Mounted(HintPopoverOptions)

Init == Constructed /\ opsLeft = MaxOps

-----------------------------------------------------------------------------
(* SpecTelemetry: a caller records calls for svc while time passes *)

TelemetryRecord ==
    \E d \in Durations, ok \in BOOLEAN :
        /\ Len(recorded) < MaxCalls
        /\ RecordServiceCall(svc, now - d, ok, IF ok THEN NoError ELSE "call failed")
        /\ UNCHANGED opsLeft

TelemetryTick ==
    \E d \in TelemetrySteps :
        /\ now + d <= StartTime + MaxElapsed
        /\ Tick(d)
        /\ UNCHANGED opsLeft

NextTelemetry == TelemetryRecord \/ TelemetryTick

SpecTelemetry == Init /\ [][NextTelemetry]_vars

-----------------------------------------------------------------------------
(* Properties of the health registry *)

RECURSIVE SumDurations(_)
SumDurations(log) ==
    IF log = <<>> THEN 0 ELSE log[1].duration + SumDurations(Tail(log))

Failures(log) == Cardinality({i \in 1..Len(log) : ~log[i].success})
Outcomes(log) == [i \in 1..Len(log) |-> log[i].success]
Counters(m) == <<m.totalCalls, m.successfulCalls, m.failedCalls>>

\* The health rule as the specification words it: clause (1) is
\* (lastSuccessful unset and totalCalls = 0) or now - lastSuccessful < 5 min
SpecifiedHealthy(service) ==
    LET m == metrics[service]
        maxTotal == IF m.totalCalls > 1 THEN m.totalCalls ELSE 1
    IN  /\ \/ (m.lastSuccessful = Unset /\ m.totalCalls = 0)
           \/ (m.lastSuccessful # Unset /\ now - m.lastSuccessful < recentWindow)
        /\ 2 * m.failedCalls < maxTotal
        /\ FracLess(m.averageLatency, maxAcceptableLatency)

-----------------------------------------------------------------------------
(* Spec: a caller of svc records calls, checks the rate limit, reads the    *)
(* rate-limit info and makes withRateLimit calls while time passes; every   *)
(* operation and every clock step takes one of MaxOps.                      *)

Spend == opsLeft > 0 /\ opsLeft' = opsLeft - 1

SpecRecord ==
    \E d \in Durations, ok \in BOOLEAN :
        /\ Spend
        /\ RecordServiceCall(svc, now - d, ok, IF ok THEN NoError ELSE "call failed")

SpecCheck == Spend /\ CheckRateLimit(svc)

SpecInfo == Spend /\ GetRateLimitInfo(svc)

SpecCall == \E hasFallback \in BOOLEAN : Spend /\ WithRateLimitCall(svc, hasFallback)

SpecResume == \E i \in 1..Len(rlCalls) : WithRateLimitResume(i) /\ UNCHANGED opsLeft

SpecSettle ==
    \E i \in 1..Len(rlCalls), ok \in BOOLEAN : WithRateLimitSettle(i, ok) /\ UNCHANGED opsLeft

SpecTick == \E d \in LimiterSteps : Spend /\ Tick(d)

Next ==
    \/ SpecRecord
    \/ SpecCheck
    \/ SpecInfo
    \/ SpecCall
    \/ SpecResume
    \/ SpecSettle
    \/ SpecTick

Spec == Init /\ [][Next]_vars

-----------------------------------------------------------------------------
(* SpecWindow: checkRateLimit and getRateLimitInfo calls for svc, whose      *)
(* metrics stay as constructed (healthy, no latency).  The number of calls   *)
(* is not bounded; the clock makes at most MaxTicks steps.  svc is the       *)
(* service with the smallest limits or one with a cooldown below a minute.   *)

WindowServices == {"openai", "vectorStore"}

InitWindow == Constructed /\ svc \in WindowServices /\ opsLeft = MaxTicks

WindowCheck == CheckRateLimit(svc) /\ UNCHANGED opsLeft

WindowInfo == GetRateLimitInfo(svc) /\ UNCHANGED opsLeft

WindowTick ==
    \E d \in WindowSteps :
        /\ now + d <= StartTime + MaxWindowElapsed
        /\ Spend
        /\ Tick(d)

NextWindow == WindowCheck \/ WindowInfo \/ WindowTick

SpecWindow == InitWindow /\ [][NextWindow]_vars

-----------------------------------------------------------------------------
(* Properties of the rate limiter *)

HalvedBase(service) ==
    LET base == DEFAULT_LIMITS[service]
    IN  [maxRequestsPerMinute |-> base.maxRequestsPerMinute \div 2,
         burstLimit |-> base.burstLimit \div 2,
         cooldownPeriod |-> 2 * base.cooldownPeriod]

SlowedBase(service) ==
    LET base == DEFAULT_LIMITS[service]
    IN  [maxRequestsPerMinute |-> (base.maxRequestsPerMinute * 4) \div 5,
         burstLimit |-> (base.burstLimit * 4) \div 5,
         cooldownPeriod |-> base.cooldownPeriod]

HasHighLatency(service) == FracGreater(metrics[service].averageLatency, highLatency)

\* C1: every checkRateLimit(s) that finds s unhealthy leaves the effective config
\* at exactly half the base limits and twice the base cooldown, however many
\* earlier checks found s unhealthy.
C1_EffectiveFromBase ==
    [][(CheckEffect(svc) /\ ~isServiceHealthy(svc)) => limits'[svc] = HalvedBase(svc)]_vars

\* C2: a checkRateLimit(s) that finds s healthy with averageLatency > 2000 leaves
\* 0.8 times the base limits and the base cooldown; one that finds s healthy with
\* averageLatency <= 2000 leaves the base config.
C2_SlowedFromBase ==
    [][(CheckEffect(svc) /\ isServiceHealthy(svc)) =>
           limits'[svc] = IF HasHighLatency(svc) THEN SlowedBase(svc)
                          ELSE DEFAULT_LIMITS[svc]]_vars

\* C3, first half: in a fresh window of a healthy service the first M checks are
\* admitted and check M+1 is denied, which sets throttled and a cooldown.
WindowFillsThenDenies ==
    LET base == DEFAULT_LIMITS[svc]
        M == base.maxRequestsPerMinute
    IN  /\ (watch.winClean /\ watch.winChecks \in 1..M) => watch.lastOutcome = "admitted"
        /\ (watch.winClean /\ watch.winChecks = M + 1) =>
               /\ watch.lastOutcome = "minute"
               /\ watch.denied
               /\ watch.deniedState.isThrottled
               /\ watch.deniedState.cooldownUntil = watch.deniedAt + base.cooldownPeriod

\* C3 as claimed: ... and the first check made after that cooldown has elapsed is
\* admitted with the window counter reset, for any configured cooldown length.
C3_Original ==
    /\ WindowFillsThenDenies
    /\ (watch.recMade /\ watch.recBaseHealth) =>
           (watch.recOutcome = "admitted" /\ watch.recRequests = 1)

\* C3 as amended: ... and the first check made after that cooldown has elapsed is
\* admitted with the window counter reset when 60 s have passed since the start of
\* the window in which the denial happened.
C3_WindowThenRecovery ==
    /\ WindowFillsThenDenies
    /\ (watch.recMade /\ watch.recBaseHealth /\ watch.recWindowOver) =>
           (watch.recOutcome = "admitted" /\ watch.recRequests = 1)

\* C3 witness: the window was filled, check M+1 was denied, and the first check
\* after the cooldown, made more than 60 s after the window started, was admitted.
C3_Witness ==
    /\ watch.recMade
    /\ watch.recWindowOver
    /\ watch.recOutcome = "admitted"
    /\ rlState[svc].requests = 1
    /\ ~rlState[svc].isThrottled
    /\ watch.deniedState.requests = DEFAULT_LIMITS[svc].maxRequestsPerMinute

C5_WithRateLimitBranches ==
    \A i \in 1..Len(rlCalls) :
        LET c == rlCalls[i]
        IN  IF c.pc = "awaitCheck"
            THEN c.operationRuns = 0 /\ c.fallbackRuns = 0
            ELSE IF c.canProceed
            THEN /\ c.operationRuns = 1
                 /\ c.fallbackRuns = 0
                 /\ c.pc \in {"operation", "done"}
                 /\ c.outcome \in {"pending", "resolved", "rejected"}
            ELSE /\ c.operationRuns = 0
                 /\ IF c.hasFallback
                    THEN /\ c.fallbackRuns = 1
                         /\ c.fallbackSaw = "Using fallback due to rate limiting"
                         /\ c.outcome # "Rate limit exceeded"
                    ELSE /\ c.fallbackRuns = 0
                         /\ c.pc = "done"
                         /\ c.outcome = "Rate limit exceeded"

\* C5 witness: one call was denied and fell back, another was admitted, given a
\* fallback, and its operation failed.
C5_Witness ==
    \E i, j \in 1..Len(rlCalls) :
        /\ ~rlCalls[i].canProceed /\ rlCalls[i].hasFallback /\ rlCalls[i].pc = "done"
        /\ rlCalls[j].canProceed /\ rlCalls[j].hasFallback /\ rlCalls[j].outcome = "rejected"

\* C6: getRateLimitInfo(s) leaves the rate-limit state of s, the effective limits
\* and the telemetry event buffer unchanged.
C6_InfoReadOnly ==
    [][GetRateLimitInfo(svc) => UNCHANGED <<rlState, limits, events>>]_vars

-----------------------------------------------------------------------------
(* SpecCalls: overlapping withTelemetry calls, completing in any order *)

MaxTelemetryCalls == 3     \* withTelemetry calls in one behaviour of SpecCalls
MaxCallElapsed == 200      \* ms of modelled time in SpecCalls
CallSteps == {100}         \* steps of the clock in SpecCalls, in ms
CallServices == {"openai", "documentation"}

InitCalls == Constructed /\ svc \in CallServices /\ opsLeft = MaxTelemetryCalls

CallsStart == WithTelemetryCall(svc) /\ Spend

CallsSettle ==
    \E i \in 1..Len(tCalls), r \in Results \cup Errors :
        WithTelemetrySettle(i, r) /\ UNCHANGED opsLeft

CallsTick ==
    \E d \in CallSteps :
        /\ now + d <= StartTime + MaxCallElapsed
        /\ Tick(d)
        /\ UNCHANGED opsLeft

NextCalls == CallsStart \/ CallsSettle \/ CallsTick

SpecCalls == InitCalls /\ [][NextCalls]_vars

CompletedCalls(s, kind) ==
    {i \in 1..Len(tCalls) :
        /\ tCalls[i].service = s
        /\ tCalls[i].pc = "done"
        /\ tCalls[i].settled.kind = kind}

\* C12: when several withTelemetry calls for one service overlap and complete
\* in any order, no update is lost: at every moment the service's totalCalls is
\* the number of those calls that have completed, successfulCalls the number
\* whose operation resolved and failedCalls the number whose operation rejected.
C12_NoLostUpdate ==
    \A s \in Services :
        /\ metrics[s].successfulCalls = Cardinality(CompletedCalls(s, "resolved"))
        /\ metrics[s].failedCalls = Cardinality(CompletedCalls(s, "rejected"))
        /\ metrics[s].totalCalls =
               Cardinality(CompletedCalls(s, "resolved") \cup CompletedCalls(s, "rejected"))

\* Three calls for svc were in flight together and completed out of order,
\* with both outcomes among them
C12_Witness ==
    /\ Len(tCalls) = 3
    /\ \A i \in 1..3 : tCalls[i].service = svc /\ tCalls[i].pc = "done"
    /\ tCalls[3].startTime < tCalls[2].endTime
    /\ tCalls[3].endTime < tCalls[1].endTime
    /\ tCalls[2].endTime < tCalls[1].endTime
    /\ tCalls[1].settled.kind = "resolved"
    /\ tCalls[2].settled.kind = "rejected"
    /\ metrics[svc].totalCalls = 3

\* C13: a withTelemetry call runs its operation exactly once, and the step in
\* which it completes records exactly one call for its service with the
\* operation's real outcome; if the operation rejected, that step also logs one
\* error event for the service carrying the error's message and the call
\* rejects with the same error; if it resolved, nothing is logged and the call
\* resolves with the operation's result.
C13_OneCallOneRecord ==
    /\ [](\A i \in 1..Len(tCalls) : tCalls[i].operationRuns = 1)
    /\ [][\A i \in 1..Len(tCalls) :
            (tCalls[i].pc = "operation" /\ tCalls'[i].pc = "done") =>
                LET s == tCalls[i].service
                    c == tCalls'[i]
                    m == metrics[s]
                    n == metrics'[s]
                IN  /\ c.operationRuns = 1
                    /\ n.totalCalls = m.totalCalls + 1
                    /\ \A t \in Services \ {s} : metrics'[t] = metrics[t]
                    /\ c.outcome = c.settled
                    /\ c.settled.kind = "resolved" =>
                           /\ n.successfulCalls = m.successfulCalls + 1
                           /\ n.failedCalls = m.failedCalls
                           /\ events' = events
                           /\ c.outcome.value \in Results
                    /\ c.settled.kind = "rejected" =>
                           /\ n.failedCalls = m.failedCalls + 1
                           /\ n.successfulCalls = m.successfulCalls
                           /\ n.lastError = c.settled.value
                           /\ Len(events') = Len(events) + 1
                           /\ Tail(events') = events
                           /\ events'[1].type = "error"
                           /\ events'[1].service = s
                           /\ events'[1].message = c.settled.value
                           /\ c.outcome.value \in Errors]_vars

\* A call whose operation rejected has completed: the failure is recorded and
\* the newest event is its error
C13_Witness ==
    \E i \in 1..Len(tCalls) :
        /\ tCalls[i].pc = "done"
        /\ tCalls[i].outcome = [kind |-> "rejected", value |-> "timeout"]
        /\ metrics[tCalls[i].service].failedCalls = 1
        /\ Len(events) = 1
        /\ events[1].message = "timeout"
        /\ \E j \in 1..Len(tCalls) : tCalls[j].pc = "done" /\ tCalls[j].outcome.kind = "resolved"

-----------------------------------------------------------------------------
(* SpecEvents: the event buffer filled up to maxEvents, then logged to and read *)

MaxProbes == 2            \* logEvent calls made once the buffer is about to be full
MaxEventElapsed == 1000   \* ms of modelled time in SpecEvents
EventSteps == {1000}      \* steps of the clock in SpecEvents, in ms

FillServices == <<"vectorStore", "documentation">>
TypeOrder == <<"info", "warning", "error">>

InitEvents == Constructed /\ svc = FillServices[2] /\ opsLeft = MaxProbes

NearlyFull == Len(events) >= maxEvents - 1

\* The system logs event after event for two of the services, service and type
\* going round; the third service has no event until a probe logs one
EventsFill ==
    /\ ~NearlyFull
    /\ LogEvent(TypeOrder[((Len(events) \div 2) % 3) + 1],
                FillServices[(Len(events) % 2) + 1], "filler")
    /\ UNCHANGED opsLeft

EventsLog ==
    \E type \in EventTypes, s \in Services :
        /\ NearlyFull
        /\ LogEvent(type, s, "probe")
        /\ Spend

EventsHealth ==
    \E s \in Services :
        /\ NearlyFull
        /\ GetServiceHealth(s)
        /\ UNCHANGED opsLeft

EventsTick ==
    \E d \in EventSteps :
        /\ NearlyFull
        /\ now + d <= StartTime + MaxEventElapsed
        /\ Tick(d)
        /\ UNCHANGED opsLeft

NextEvents == EventsFill \/ EventsLog \/ EventsHealth \/ EventsTick

SpecEvents == InitEvents /\ [][NextEvents]_vars

\* C14: the event buffer never holds more than 1000 events; every logEvent
\* puts the new event (stamped with the current time) at the head and keeps
\* the events that were there in their order, dropping only the last, oldest
\* one, and only when the buffer already held 1000.
C14_BufferBounded ==
    /\ [](Len(events) <= 1000)
    /\ [][\A type \in EventTypes, s \in Services, message \in {"filler", "probe"} :
            LogEvent(type, s, message) =>
                /\ Len(events') = (IF Len(events) < 1000 THEN Len(events) + 1 ELSE 1000)
                /\ events'[1] = [timestamp |-> now, type |-> type, service |-> s,
                                 message |-> message]
                /\ \A k \in 2..Len(events') : events'[k] = events[k - 1]]_vars

\* Two events have been logged onto a full buffer
C14_Witness ==
    /\ Len(events) = 1000
    /\ events[1].message = "probe" /\ events[1].service = "openai"
    /\ events[2].message = "probe" /\ events[2].service = "vectorStore"
    /\ events[3].message = "filler"
    /\ events[1000].message = "filler"

\* r is every event of s in evs when there are fewer than ten, and otherwise
\* what evs holds for s up to the place n of the tenth
MostRecentOf(r, evs, s) ==
    /\ Len(r) <= 10
    /\ \A i \in 1..Len(r) : r[i].service = s
    /\ IF Len(r) < 10
       THEN SelectSeq(evs, LAMBDA e : e.service = s) = r
       ELSE \E n \in 1..Len(evs) :
               /\ evs[n] = r[10]
               /\ SelectSeq(SubSeq(evs, 1, n), LAMBDA e : e.service = s) = r

\* C15: getServiceHealth(s) changes no metrics, no event, no rate-limit state
\* and no lifecycle state, and the recentEvents it returns are at most 10
\* events, all of service s: the most recently logged events of s that the
\* buffer holds, newest first.
C15_HealthReadOnly ==
    [][\A s \in Services :
          GetServiceHealth(s) =>
              /\ UNCHANGED <<metrics, events, limits, rlState, smState,
                             healthCheckInterval, timers>>
              /\ lastHealth'.service = s
              /\ lastHealth'.metrics = metrics[s]
              /\ MostRecentOf(lastHealth'.recentEvents, events, s)]_vars

\* getServiceHealth(svc) was called on a full buffer whose newest event
\* belonged to another service, and returned ten events
C15_Witness ==
    /\ Len(events) = 1000
    /\ events[1].message = "probe" /\ events[1].service # svc
    /\ events[2].message = "probe" /\ events[2].service = svc
    /\ lastHealth.service = svc
    /\ Len(lastHealth.recentEvents) = 10
    /\ lastHealth.recentEvents[1] = events[2]
    /\ lastHealth.recentEvents[10].message = "filler"

-----------------------------------------------------------------------------
(* checkRateLimit(svc), seen from the state it is called in *)

\* What the tests of checkRateLimit(svc) read after resetCounters has run
ThrottledAtCheck == rlState[svc].isThrottled /\ now < rlState[svc].cooldownUntil
RequestsAtCheck == IF now - rlState[svc].lastReset >= 60000 THEN 0 ELSE rlState[svc].requests
BurstAtCheck ==
    IF now - rlState[svc].lastBurstReset >= 1000 THEN 0 ELSE rlState[svc].burstCount

Warning(message) ==
    [timestamp |-> now, type |-> "warning", service |-> svc, message |-> message]

\* C16: a checkRateLimit call that finds the service not throttled and its
\* per-minute counter at or above the effective maxRequestsPerMinute throttles
\* it with cooldownUntil = now + the effective cooldownPeriod; one that finds
\* the per-minute counter below the limit and the burst counter at or above the
\* effective burstLimit throttles it with cooldownUntil = now + half the
\* effective cooldownPeriod; both log a warning event for the service and
\* return false.
C16_DenialCooldown ==
    [][CheckRateLimit(svc) =>
          LET lim == limits'[svc]
              post == rlState'[svc]
              overMinute == RequestsAtCheck >= lim.maxRequestsPerMinute
              overBurst == BurstAtCheck >= lim.burstLimit
          IN  /\ (~ThrottledAtCheck /\ overMinute) =>
                     /\ post.isThrottled
                     /\ post.cooldownUntil = now + lim.cooldownPeriod
                     /\ events'[1] = Warning("Rate limit exceeded (per minute)")
                     /\ watch'.lastOutcome # "admitted"
              /\ (~ThrottledAtCheck /\ ~overMinute /\ overBurst) =>
                     /\ post.isThrottled
                     /\ 2 * (post.cooldownUntil - now) = lim.cooldownPeriod
                     /\ events'[1] = Warning("Burst limit exceeded")
                     /\ watch'.lastOutcome # "admitted"]_vars

\* A per-minute denial has just happened
C16_Witness ==
    /\ watch.lastOutcome = "minute"
    /\ rlState[svc].isThrottled
    /\ rlState[svc].requests = limits[svc].maxRequestsPerMinute
    /\ rlState[svc].cooldownUntil = now + limits[svc].cooldownPeriod
    /\ events[1] = Warning("Rate limit exceeded (per minute)")

\* C17: checkRateLimit returns true exactly when it increments both the
\* per-minute and the burst counter by one (from the values resetCounters
\* leaves); when it returns false neither counter is incremented; and a check
\* made while the service is throttled and now < cooldownUntil returns false.
C17_TrueIffCounted ==
    [][CheckRateLimit(svc) =>
          LET post == rlState'[svc]
              returnsTrue == watch'.lastOutcome = "admitted"
              counted == /\ post.requests = RequestsAtCheck + 1
                         /\ post.burstCount = BurstAtCheck + 1
          IN  /\ returnsTrue <=> counted
              /\ ~returnsTrue =>
                     /\ post.requests = RequestsAtCheck
                     /\ post.burstCount = BurstAtCheck
              /\ ThrottledAtCheck => ~returnsTrue]_vars

\* A check was made during a cooldown and returned false
C17_Witness ==
    /\ watch.lastOutcome = "throttled"
    /\ rlState[svc].isThrottled
    /\ now < rlState[svc].cooldownUntil
    /\ rlState[svc].requests > 0
    /\ rlState[svc].burstCount = 0

-----------------------------------------------------------------------------
(* SpecLifecycle: initialize, sweeps and recoveries, shutdown, in any interleaving *)

MaxLifeOps == 5                       \* calls and clock steps in a behaviour of SpecLifecycle
LifeSteps == {300000}                 \* steps of the clock in SpecLifecycle, in ms
Settlements == {"result", "timeout"}  \* what a collaborator settles with

InitLifecycle == Constructed /\ svc = "openai" /\ opsLeft = MaxLifeOps

\* initialize() is called once no earlier call of it is still running
LifeInitialize ==
    /\ \A i \in 1..Len(initCalls) : initCalls[i].pc = "done"
    /\ InitializeCall
    /\ Spend

LifeInitSettle ==
    \E i \in 1..Len(initCalls), r \in Settlements : InitializeSettle(i, r) /\ UNCHANGED opsLeft

LifeShutdown == Shutdown /\ Spend

LifeSweepStart == \E t \in timers : SweepStart(t) /\ UNCHANGED opsLeft

LifeSweepSettle ==
    \E i \in 1..Len(sweeps), r \in Settlements : SweepSettle(i, r) /\ UNCHANGED opsLeft

LifeSweepWake == \E i \in 1..Len(sweeps) : SweepWake(i) /\ UNCHANGED opsLeft

\* A call to the OpenAI API made elsewhere in the program fails
LifeRecord == RecordServiceCall(svc, now, FALSE, "timeout") /\ Spend

LifeTick == \E d \in LifeSteps : Tick(d) /\ Spend

NextLifecycle ==
    \/ LifeInitialize
    \/ LifeInitSettle
    \/ LifeShutdown
    \/ LifeSweepStart
    \/ LifeSweepSettle
    \/ LifeSweepWake
    \/ LifeRecord
    \/ LifeTick

SpecLifecycle == InitLifecycle /\ [][NextLifecycle]_vars

\* C18: initialize() initializes vectorStore, then documentation.  The step in
\* which the initialization of vectorStore fails sets its readiness to false,
\* leaves the readiness of documentation as it was, rejects the call with the
\* collaborator's error, does not attempt documentation and arms no timer; the
\* step in which it succeeds goes on with documentation and leaves both
\* flags true; the sweep timer is armed only by a call whose two dependencies
\* both succeeded.
C18_InitializeStopsAtFirstFailure ==
    /\ [](\A i \in 1..Len(initCalls) :
            LET c == initCalls[i]
            IN  /\ "vectorStore" \in c.attempted
                /\ c.pc = "vectorStore" => c.attempted = {"vectorStore"}
                /\ c.armed # NoTimer <=> c.outcome.kind = "resolved"
                /\ c.outcome.kind = "resolved" <=> c.attempted = Dependencies)
    /\ [](\A t \in timers :
            /\ t.id \in 1..Len(initCalls)
            /\ initCalls[t.id].outcome.kind = "resolved")
    /\ [][\A i \in 1..Len(initCalls) :
            /\ InitializeSettle(i, "timeout") =>
                   /\ smState'.vectorStore = FALSE
                   /\ smState'.documentation = smState.documentation
                   /\ initCalls'[i].pc = "done"
                   /\ initCalls'[i].outcome = [kind |-> "rejected", value |-> "timeout"]
                   /\ initCalls'[i].attempted = {"vectorStore"}
                   /\ metrics'["documentation"] = metrics["documentation"]
                   /\ timers' = timers
                   /\ healthCheckInterval' = healthCheckInterval
            /\ InitializeSettle(i, "result") =>
                   /\ smState'.vectorStore /\ smState'.documentation
                   /\ initCalls'[i].outcome.kind = "resolved"
                   /\ \E t \in timers' : t.id = i /\ healthCheckInterval' = i]_vars

\* A second initialize() call failed at vectorStore after a first one had
\* succeeded: documentation was not attempted and is still ready, vectorStore is
\* not, and the call armed no timer
C18_Witness ==
    /\ Len(initCalls) = 2
    /\ initCalls[1].outcome.kind = "resolved"
    /\ initCalls[2].outcome = [kind |-> "rejected", value |-> "timeout"]
    /\ initCalls[2].attempted = {"vectorStore"}
    /\ initCalls[2].armed = NoTimer
    /\ ~smState.vectorStore
    /\ smState.documentation
    /\ smState.lastError = "timeout"

\* The sweep i as it was before the step; a sweep the step starts was not there
SweepBefore(i) == IF i <= Len(sweeps) THEN sweeps[i] ELSE NewSweep(sweeps'[i].timer)

\* C19: a sweep calls attemptServiceRecovery(s) exactly for the services s that
\* getServiceHealth reported unhealthy at the moment the sweep examined them,
\* and a service found healthy never has its init collaborator invoked by that
\* sweep.
C19_RecoveryIffUnhealthy ==
    /\ [](\A i \in 1..Len(sweeps), s \in Services :
            LET w == sweeps[i]
            IN  /\ w.recoveries[s] = (IF w.found[s] = "unhealthy" THEN 1 ELSE 0)
                /\ w.inits[s] <= w.recoveries[s]
                /\ w.found[s] = "healthy" => w.inits[s] = 0)
    /\ [][\A i \in 1..Len(sweeps'), s \in Services :
            sweeps'[i].found[s] # SweepBefore(i).found[s] =>
                /\ SweepBefore(i).found[s] = "unexamined"
                /\ sweeps'[i].found[s] = "healthy" <=> isServiceHealthy(s)]_vars

\* A sweep has examined every service: it found documentation unhealthy and
\* openai healthy, and of these two it invoked the collaborator of documentation only
C19_Witness ==
    \E i \in 1..Len(sweeps) :
        /\ sweeps[i].pc = "done"
        /\ sweeps[i].found["documentation"] = "unhealthy"
        /\ sweeps[i].found["openai"] = "healthy"
        /\ sweeps[i].inits["documentation"] = 1
        /\ sweeps[i].inits["openai"] = 0

\* C20: retryCount is always within 0..3, however sweeps, recoveries,
\* initialize and shutdown interleave; and a sweep step that calls
\* attemptServiceRecovery while retryCount >= 3 invokes no init collaborator,
\* changes no readiness flag and leaves retryCount as it is.
C20_RetryCountBounded ==
    /\ [](smState.retryCount \in 0..3)
    /\ [][\A i \in 1..Len(sweeps'), s \in Services :
            (/\ SweepBefore(i).pc # "init"
             /\ sweeps'[i].recoveries[s] > SweepBefore(i).recoveries[s]
             /\ smState.retryCount >= 3) =>
                /\ smState' = smState
                /\ sweeps'[i].inits = SweepBefore(i).inits
                /\ sweeps'[i].pc = "done"
                /\ metrics' = metrics
                /\ initCalls' = initCalls]_vars

\* Three recoveries have failed and a later attemptServiceRecovery found the
\* retries used up
C20_Witness ==
    /\ smState.retryCount = 3
    /\ Len(events) > 0
    /\ events[1].message = "Max retry attempts reached"

-----------------------------------------------------------------------------
(* SpecRegistry: the operations of the telemetry registry, the rate limiter *)
(* and the lifecycle manager, in any order                                  *)

MaxRegistryOps == 4       \* calls, sweeps and clock steps in one behaviour of SpecRegistry

InitRegistry == Constructed /\ svc = "vectorStore" /\ opsLeft = MaxRegistryOps

RegistryRecord ==
    \E success \in BOOLEAN :
        /\ RecordServiceCall(svc, now, success, IF success THEN NoError ELSE "timeout")
        /\ Spend

RegistryLog == LogEvent("info", svc, "probe") /\ Spend

RegistryHealth == GetServiceHealth(svc) /\ Spend

RegistryClear == ClearMetrics /\ Spend

RegistryCall == WithTelemetryCall(svc) /\ Spend

RegistryCallSettle ==
    \E i \in 1..Len(tCalls), r \in Settlements :
        WithTelemetrySettle(i, r) /\ UNCHANGED opsLeft

RegistryCheck == CheckRateLimit(svc) /\ Spend

RegistryInfo == GetRateLimitInfo(svc) /\ Spend

RegistryInitialize ==
    /\ \A i \in 1..Len(initCalls) : initCalls[i].pc = "done"
    /\ InitializeCall
    /\ Spend

RegistryInitSettle ==
    \E i \in 1..Len(initCalls), r \in Settlements :
        InitializeSettle(i, r) /\ UNCHANGED opsLeft

RegistryShutdown == Shutdown /\ Spend

RegistrySweepStart == \E t \in timers : SweepStart(t) /\ Spend

RegistrySweepSettle ==
    \E i \in 1..Len(sweeps), r \in Settlements : SweepSettle(i, r) /\ UNCHANGED opsLeft

RegistrySweepWake == \E i \in 1..Len(sweeps) : SweepWake(i) /\ UNCHANGED opsLeft

RegistryTick == \E d \in LifeSteps : Tick(d) /\ Spend

NextRegistry ==
    \/ RegistryRecord
    \/ RegistryLog
    \/ RegistryHealth
    \/ RegistryClear
    \/ RegistryCall
    \/ RegistryCallSettle
    \/ RegistryCheck
    \/ RegistryInfo
    \/ RegistryInitialize
    \/ RegistryInitSettle
    \/ RegistryShutdown
    \/ RegistrySweepStart
    \/ RegistrySweepSettle
    \/ RegistrySweepWake
    \/ RegistryTick

SpecRegistry == InitRegistry /\ [][NextRegistry]_vars

CountersGrow ==
    \A s \in Services :
        /\ metrics'[s].totalCalls >= metrics[s].totalCalls
        /\ metrics'[s].successfulCalls >= metrics[s].successfulCalls
        /\ metrics'[s].failedCalls >= metrics[s].failedCalls

\* C11 as stated: no step of any operation of the telemetry registry, the rate
\* limiter or the lifecycle manager decreases totalCalls, successfulCalls or
\* failedCalls of any service.
C11_Original == [][CountersGrow]_vars

\* C11: no step decreases totalCalls, successfulCalls or failedCalls of any
\* service, except a clearMetrics() step, which sets the three counters of
\* every service to 0.
C11_CountersGrowUntilCleared ==
    [][/\ CountersGrow \/ ClearMetrics
       /\ ClearMetrics =>
              \A s \in Services :
                  /\ metrics'[s].totalCalls = 0
                  /\ metrics'[s].successfulCalls = 0
                  /\ metrics'[s].failedCalls = 0]_vars

\* Two withTelemetry calls for svc have completed, the second one with a
\* failure, and totalCalls is 1: the counters were cleared between the two
\* completions and have grown again
C11_Witness ==
    /\ Len(tCalls) = 2
    /\ tCalls[1].pc = "done" /\ tCalls[1].settled.kind = "resolved"
    /\ tCalls[2].pc = "done" /\ tCalls[2].settled.kind = "rejected"
    /\ metrics[svc].totalCalls = 1
    /\ metrics[svc].failedCalls = 1
    /\ metrics[svc].successfulCalls = 0
-----------------------------------------------------------------------------
(* SpecRecovery: initialize() calls and the sweeps of the timer they arm,    *)
(* with collaborators that succeed or fail before the clock moves on; the    *)
(* clock moves by the period of the sweep timer or by the time after which   *)
(* no service has a recent success, and there is no shutdown().              *)

MaxRecoveryOps == 5                  \* initialize() calls and clock steps in a behaviour of SpecRecovery
RecoverySteps == {30000, 300000}     \* steps of the clock in SpecRecovery, in ms

InitRecovery == Constructed /\ svc = "documentation" /\ opsLeft = MaxRecoveryOps

RecoveryInitialize ==
    /\ \A i \in 1..Len(initCalls) : initCalls[i].pc = "done"
    /\ InitializeCall
    /\ Spend

RecoveryInitSettle ==
    \E i \in 1..Len(initCalls), r \in Settlements : InitializeSettle(i, r) /\ UNCHANGED opsLeft

RecoverySweepStart == \E t \in timers : SweepStart(t) /\ UNCHANGED opsLeft

RecoverySweepSettle ==
    \E i \in 1..Len(sweeps), r \in Settlements : SweepSettle(i, r) /\ UNCHANGED opsLeft

RecoverySweepWake == \E i \in 1..Len(sweeps) : SweepWake(i) /\ UNCHANGED opsLeft

\* Every collaborator settles before the clock moves on
RecoveryTick ==
    /\ \A i \in 1..Len(initCalls) : initCalls[i].pc = "done"
    /\ \A i \in 1..Len(sweeps) : sweeps[i].pc # "init"
    /\ \E d \in RecoverySteps : Tick(d) /\ Spend

NextRecovery ==
    \/ RecoveryInitialize
    \/ RecoveryInitSettle
    \/ RecoverySweepStart
    \/ RecoverySweepSettle
    \/ RecoverySweepWake
    \/ RecoveryTick

SpecRecovery == InitRecovery /\ [][NextRecovery]_vars

\* C21: for each dependency d, once 3 recovery attempts of d in a row have
\* failed, no sweep invokes the init collaborator of d again until initialize()
\* is called, whatever the recoveries of the other dependencies do in between.
C21_ExhaustedPerDependency ==
    [][\A i \in 1..Len(sweeps'), d \in Services :
          sweeps'[i].inits[d] > SweepBefore(i).inits[d] => lifeHist.failedInRow[d] < 3]_vars

\* C22: once an initialize() that was called with the retries used up has
\* succeeded, and until a shutdown(), automatic recovery is available again: the
\* next sweep step that calls attemptServiceRecovery for a service it found
\* unhealthy invokes the init collaborator of that service.
C22_ReinitializeRearmsRecovery ==
    [][\A i \in 1..Len(sweeps'), d \in Services :
          (/\ lifeHist.rearmed
           /\ sweeps'[i].recoveries[d] > SweepBefore(i).recoveries[d]) =>
              sweeps'[i].inits[d] > SweepBefore(i).inits[d]]_vars

-----------------------------------------------------------------------------
(* Recovery and shutdown, checked under SpecLifecycle *)

\* C23: an attemptServiceRecovery call made with retryCount < 3 increments
\* retryCount once and invokes the collaborator once; when the collaborator
\* succeeds retryCount is 0 as the call returns; when it fails, the call being
\* attempt number k, the call sleeps retryDelay * 2^(k-1) ms, that is 5000,
\* 10000 or 20000, whatever other sweeps and shutdown() did in between.
C23_OneAttemptThenBackoff ==
    /\ [](\A i \in 1..Len(sweeps), s \in Services : sweeps[i].inits[s] <= 1)
    /\ [][\A i \in 1..Len(sweeps'), s \in Services :
             sweeps'[i].inits[s] > SweepBefore(i).inits[s] =>
                 /\ sweeps'[i].attempt \in 1..maxRetries
                 /\ smState'.retryCount =
                        (IF sweeps'[i].pc = "init" THEN sweeps'[i].attempt ELSE 0)]_vars
    /\ [][\A i \in 1..Len(sweeps) :
             /\ SweepSettle(i, "result") =>
                    smState'.retryCount = (IF sweeps'[i].pc = "init" THEN 1 ELSE 0)
             /\ SweepSettle(i, "timeout") =>
                    /\ sweeps'[i].pc = "sleep"
                    /\ sweeps'[i].wakeAt - now = retryDelay * 2 ^ (sweeps[i].attempt - 1)
                    /\ sweeps'[i].wakeAt - now \in {5000, 10000, 20000}
                    /\ sweeps'[i].inits = sweeps[i].inits]_vars

\* C24: shutdown() cancels the sweep timer and sets every readiness flag to
\* false and retryCount to 0; called when the manager is already shut down it
\* changes neither the lifecycle state, nor the timers, nor the telemetry events.
C24_ShutdownIdempotent ==
    [][Shutdown =>
          /\ healthCheckInterval' = NoTimer
          /\ \A t \in timers' : t.id # healthCheckInterval
          /\ ~smState'.vectorStore /\ ~smState'.documentation
          /\ smState'.retryCount = 0
          /\ lifeHist.down =>
                 /\ smState' = smState
                 /\ timers' = timers
                 /\ healthCheckInterval' = healthCheckInterval
                 /\ events' = events]_vars

\* C25: shutdown() resets every entity to its initial value: after it the
\* metrics of every service are those of initializeMetrics(), the rate-limit
\* state and the effective limits of every service are the initial ones, and
\* the lifecycle state is the initial one.
C25_ShutdownResetsAll ==
    [][Shutdown =>
          /\ \A s \in Services :
                 /\ metrics'[s] = initializeMetrics
                 /\ rlState'[s] = createInitialState
                 /\ limits'[s] = DEFAULT_LIMITS[s]
          /\ smState' = initialState
          /\ healthCheckInterval' = NoTimer]_vars

\* C26: after shutdown() has returned and until initialize() is called again,
\* no sweep invokes an init collaborator, also not a sweep that was waiting for
\* a recovery or sleeping when shutdown() was called.
C26_NoRecoveryAfterShutdown ==
    [][\A i \in 1..Len(sweeps'), s \in Services :
          sweeps'[i].inits[s] > SweepBefore(i).inits[s] => ~lifeHist.down]_vars

-----------------------------------------------------------------------------
(* SpecCache: set, get, invalidate and clear on one useHintCache instance,   *)
(* created with small options or with the defaults, while time passes        *)

MaxCacheOps == 6                     \* cache operations and clock steps in a behaviour of SpecCache
CacheSteps == {1000}                 \* steps of the clock in SpecCache, in ms

\* The options of the instance: a small cache with a short ttl, or the defaults
CacheOptionSets ==
    {[ttl |-> 1000, maxEntries |-> 2], [ttl |-> 1000, maxEntries |-> 3], HintPopoverOptions}

InitCache ==
    /\ Singletons
    /\ svc = "documentation"
    /\ \E options \in CacheOptionSets : Mounted(options)
    /\ opsLeft = MaxCacheOps

CacheOpSet == \E key \in CacheKeys, data \in CacheData : CacheSet(key, data) /\ Spend

CacheOpGet == \E key \in CacheKeys : CacheGet(key) /\ Spend

CacheOpInvalidate == \E key \in CacheKeys : CacheInvalidate(key) /\ Spend

CacheOpClear == CacheClear /\ Spend

CacheTick == \E d \in CacheSteps : Tick(d) /\ Spend

NextCache ==
    \/ CacheOpSet
    \/ CacheOpGet
    \/ CacheOpInvalidate
    \/ CacheOpClear
    \/ CacheTick

SpecCache == InitCache /\ [][NextCache]_vars

\* C27: after any sequence of set, get, invalidate and clear the cache holds at
\* most maxEntries entries, with no key twice.
C27_SizeBounded ==
    /\ Len(cache) <= EffectiveMaxEntries
    /\ \A m, n \in 1..Len(cache) : cache[m].key = cache[n].key => m = n

\* The cache of 2 entries is full after a set that found it full
C27_Witness ==
    /\ cacheOptions.maxEntries = 2
    /\ Len(cache) = 2
    /\ cacheHist.setsWhenFull > 0

\* The entries of the Map c other than the n-th one and than the one of key
OtherEntries(c, key, n) == {c[m] : m \in {j \in 1..Len(c) : j # n /\ c[j].key # key}}

\* C28: a set(key, data) on a cache that holds maxEntries entries removes
\* exactly one entry, one whose timestamp is the smallest among the entries
\* present, also when keys have been set more than once; the other entries
\* stay and key holds data, stamped now.
C28_EvictsEarliest ==
    [][\A key \in CacheKeys, data \in CacheData :
          (CacheSet(key, data) /\ Len(cache) >= EffectiveMaxEntries) =>
              /\ HasKey(cache', key)
              /\ EntryOf(cache', key) = [key |-> key, data |-> data, timestamp |-> now]
              /\ \E n \in 1..Len(cache) :
                     /\ \A m \in 1..Len(cache) : cache[n].timestamp <= cache[m].timestamp
                     /\ OtherEntries(cache', key, 0) = OtherEntries(cache, key, n)]_vars

\* C29: get(key) returns a miss for an absent key and changes nothing; for a
\* present key whose entry is older than ttl it returns a miss and deletes that
\* entry only; otherwise it returns the stored data and changes nothing.  So
\* whatever get returns is the data of the latest set of the key, made at most
\* ttl ago, however often the key was read.
C29_GetExpiresByInsertion ==
    [][\A key \in CacheKeys :
          CacheGet(key) =>
              /\ cacheOut'.key = key
              /\ IF ~HasKey(cache, key)
                 THEN cacheOut'.result = Miss /\ cache' = cache
                 ELSE IF now - EntryOf(cache, key).timestamp > EffectiveTtl
                 THEN /\ cacheOut'.result = Miss
                      /\ ~HasKey(cache', key)
                      /\ Len(cache') = Len(cache) - 1
                      /\ OtherEntries(cache', key, 0) = OtherEntries(cache, key, 0)
                 ELSE /\ cacheOut'.result = EntryOf(cache, key).data
                      /\ cache' = cache
              /\ cacheOut'.result # Miss =>
                     /\ cacheOut'.result = cacheHist.lastSet[key].data
                     /\ now - cacheHist.lastSet[key].time <= EffectiveTtl]_vars

\* A key was read twice with a hit and then, more than ttl after its set, read
\* with a miss that deleted it
C29_Witness ==
    \E key \in CacheKeys :
        /\ cacheOut = [key |-> key, result |-> Miss]
        /\ cacheHist.hits[key] = 2
        /\ cacheHist.lastSet[key].time > 0
        /\ now - cacheHist.lastSet[key].time > EffectiveTtl
        /\ ~HasKey(cache, key)

\* C37: set(key, data) for a key that is present replaces the entry of that key
\* and leaves the entries of all other keys in the Map, also when the Map holds
\* maxEntries entries.
C37_ResetKeepsOtherKeys ==
    [][\A key \in CacheKeys, data \in CacheData :
          (CacheSet(key, data) /\ HasKey(cache, key)) =>
              /\ EntryOf(cache', key) = [key |-> key, data |-> data, timestamp |-> now]
              /\ OtherEntries(cache', key, 0) = OtherEntries(cache, key, 0)]_vars

-----------------------------------------------------------------------------
(* The fallback chain of a withRateLimit call, checked under Spec *)

\* C30: a withRateLimit call that was given a fallback advances to it on every
\* failure of the first tier, a denial by the rate limiter as well as a failed
\* operation(): the caller gets an error only when the fallback has run and
\* failed too.
C30_ChainAdvancesOnAnyFailure ==
    \A i \in 1..Len(rlCalls) :
        LET c == rlCalls[i]
        IN  c.hasFallback =>
                /\ (c.pc # "awaitCheck" /\ ~c.canProceed) => c.fallbackRuns = 1
                /\ (c.pc = "done" /\ c.outcome # "resolved") =>
                       /\ c.fallbackRuns = 1
                       /\ c.outcome = "rejected"

-----------------------------------------------------------------------------
(* Health after initialize(), checked under SpecRecovery *)

\* C34: the step in which the first initialize() of a process succeeds, no other
\* call having been made, leaves vectorStore and documentation healthy for
\* getServiceHealth; and the first sweep, started while the successes recorded
\* by initialize() are recent, calls attemptServiceRecovery for neither.
C34_HealthyAfterInitialize ==
    /\ [][(/\ Len(initCalls) = 1
           /\ InitializeSettle(1, "result")
           /\ events = <<>>
           /\ \A s \in Services : metrics[s] = initializeMetrics) =>
              \A d \in Dependencies : isServiceHealthy(d)']_vars
    /\ [][(/\ Len(initCalls) = 1
           /\ initCalls[1].outcome.kind = "resolved"
           /\ sweeps = <<>>
           /\ now - initCalls[1].startTime < recentWindow
           /\ \E t \in timers : SweepStart(t)) =>
              \A d \in Dependencies : sweeps'[1].recoveries[d] = 0]_vars

-----------------------------------------------------------------------------
(* Shutdown and the calls in flight, checked under SpecLifecycle *)

\* C33: after shutdown() has returned and until initialize() is called again,
\* the readiness flags of vectorStore and documentation are false, so
\* isInitialized() is false, also when an initialize() or a recovery that was
\* waiting for its collaborator at the moment of shutdown() completes afterwards.
C33_DownMeansNotReady ==
    lifeHist.down => (~smState.vectorStore /\ ~smState.documentation)

\* C38: at most one sweep timer is active at any time, and none is active after
\* shutdown() has returned and until initialize() is called again.
C38_OneTimerNoneWhenDown ==
    /\ Cardinality(timers) <= 1
    /\ lifeHist.down => timers = {}

-----------------------------------------------------------------------------
(* ServiceManager.getInstance() *)

StackLimit == 40          \* activations the call stack holds before the engine throws RangeError
MaxGetCalls == 3          \* getInstance() calls in one behaviour of SpecInstance

\* The call stack's capacity depends on the engine and on the frames below the call
StackLimits == {StackLimit \div 2, StackLimit}

StackOverflow == "RangeError: Maximum call stack size exceeded"

\* A getInstance() call as it enters its first activation
NewGetInstance(limit) ==
    [pc |-> "running", frames |-> 1, limit |-> limit, outcome |-> Pending]

\* getInstance() is synchronous: a call starts once the earlier ones have ended
GetInstanceCall ==
    /\ \A i \in 1..Len(getCalls) : getCalls[i].pc = "done"
    /\ \E limit \in StackLimits : getCalls' = Append(getCalls, NewGetInstance(limit))
    /\ UNCHANGED <<now, telemetryVars, limiterVars, rlCalls, svc, cacheVars, historyVars, probeVars,
                   lifecycleVars, instance, analyses>>

\* The innermost activation of call i runs: if (!ServiceManager.instance) it
\* calls ServiceManager.getInstance() before anything is assigned, which is a new
\* activation, or a RangeError that unwinds the whole call when the stack is
\* full; otherwise it returns ServiceManager.instance
GetInstanceRun(c) ==
    IF instance # NoInstance
    THEN [c EXCEPT !.pc = "done", !.frames = @ - 1,
                   !.outcome = [kind |-> "returned", value |-> instance]]
    ELSE IF c.frames < c.limit
    THEN [c EXCEPT !.frames = @ + 1]
    ELSE [c EXCEPT !.pc = "done", !.frames = 0,
                   !.outcome = [kind |-> "thrown", value |-> StackOverflow]]

GetInstanceStep(i) ==
    /\ i \in 1..Len(getCalls)
    /\ getCalls[i].pc = "running"
    /\ getCalls' = [getCalls EXCEPT ![i] = GetInstanceRun(@)]
    /\ UNCHANGED <<now, telemetryVars, limiterVars, rlCalls, svc, cacheVars, historyVars, probeVars,
                   lifecycleVars, instance, analyses>>

(* SpecInstance: getInstance() is called a few times in a process *)

InitInstance == Constructed /\ svc = "openai" /\ opsLeft = MaxGetCalls

InstanceCall == GetInstanceCall /\ Spend

InstanceStep == \E i \in 1..Len(getCalls) : GetInstanceStep(i) /\ UNCHANGED opsLeft

NextInstance == InstanceCall \/ InstanceStep

SpecInstance == InitInstance /\ [][NextInstance]_vars

\* C32: a getInstance() call that has ended has returned an instance, and every
\* call has returned the same one.
C32_GetInstanceReturnsSingleton ==
    \A i \in 1..Len(getCalls) :
        getCalls[i].pc = "done" =>
            /\ getCalls[i].outcome.kind = "returned"
            /\ getCalls[i].outcome.value # NoInstance
            /\ \A j \in 1..i : getCalls[j].outcome = getCalls[i].outcome

-----------------------------------------------------------------------------
(* analyzeCode(code, language, userSkillLevel) *)

MaxAnalysisOps == 4       \* calls and clock steps in one behaviour of SpecAnalysis

\* ServiceManager.isInitialized()
IsInitialized == smState.vectorStore /\ smState.documentation

\* What the telemetry holds after the withTelemetry calls of analyzeCode.  The
\* DocumentationProcessor of aiService.ts is created when the module is loaded
\* and processDocumentation is never called on it, so its vectorStore is null:
\* the queryDocumentation of findExamples throws inside findExamples' own
\* withTelemetry and findExamples returns [], the queryDocumentation of
\* findRelevantHints throws through withTelemetry into the catch block of
\* analyzeCode, openai.invoke is not reached, and the catch block returns
AnalyzedTelemetry(tel) ==
    LET query == Telemetered(tel, "documentation", now, NotInitialized)
        examples == Telemetered(query, "documentation", now, "result")
        hints == Telemetered(examples, "documentation", now, NotInitialized)
    IN  Telemetered(hints, "openai", now, "result")

\* The call as it ends.  caught is the error the catch block of analyzeCode
\* received, invoked whether openai.invoke was called
NewAnalysis ==
    IF ~IsInitialized
    THEN [outcome |-> [kind |-> "rejected", value |-> "Services not initialized"],
          caught |-> NoError, invoked |-> FALSE]
    ELSE [outcome |-> [kind |-> "resolved",
                       value |-> IF ~smState.vectorStore THEN "basicAnalysis" ELSE "[]"],
          caught |-> NotInitialized, invoked |-> FALSE]

AnalyzeCode ==
    /\ analyses' = Append(analyses, NewAnalysis)
    /\ LET tel == IF IsInitialized THEN AnalyzedTelemetry(TelemetryNow) ELSE TelemetryNow
       IN  /\ metrics' = tel.metrics
           /\ events' = tel.events
           /\ recorded' = tel.recorded
    /\ UNCHANGED <<now, limiterVars, rlCalls, svc, cacheVars, watch, probeVars, lifecycleVars,
                   instance, getCalls>>

(* SpecAnalysis: analyzeCode() calls between initialize() and shutdown() *)

InitAnalysis == Constructed /\ svc = "openai" /\ opsLeft = MaxAnalysisOps

AnalysisInitialize ==
    /\ \A i \in 1..Len(initCalls) : initCalls[i].pc = "done"
    /\ InitializeCall
    /\ Spend

AnalysisInitSettle ==
    \E i \in 1..Len(initCalls), r \in Settlements : InitializeSettle(i, r) /\ UNCHANGED opsLeft

AnalysisShutdown == Shutdown /\ Spend

AnalysisCall == AnalyzeCode /\ Spend

AnalysisTick == \E d \in LifeSteps : Tick(d) /\ Spend

NextAnalysis ==
    \/ AnalysisInitialize
    \/ AnalysisInitSettle
    \/ AnalysisShutdown
    \/ AnalysisCall
    \/ AnalysisTick

SpecAnalysis == InitAnalysis /\ [][NextAnalysis]_vars

\* The events a step has logged, newest first
NewEvents == SubSeq(events', 1, Len(events') - Len(events))

\* C31: an analyzeCode() call whose primary tier failed (its catch block ran)
\* leaves failedCalls of openai incremented, successfulCalls of openai as it was
\* and an error event for openai; and as each of its calls to the documentation
\* dependency failed, it records no successful documentation call.
C31_AttemptsReportRealOutcome ==
    [][(AnalyzeCode /\ analyses'[Len(analyses')].caught # NoError) =>
          /\ metrics'["openai"].failedCalls = metrics["openai"].failedCalls + 1
          /\ metrics'["openai"].successfulCalls = metrics["openai"].successfulCalls
          /\ \E k \in 1..Len(NewEvents) :
                 NewEvents[k].type = "error" /\ NewEvents[k].service = "openai"
          /\ metrics'["documentation"].successfulCalls =
                 metrics["documentation"].successfulCalls]_vars

-----------------------------------------------------------------------------
(* The counters of a service, checked under SpecRegistry *)

\* C39: for every service, in every reachable state, totalCalls is
\* successfulCalls + failedCalls, and lastSuccessful is set exactly when
\* successfulCalls > 0.
C39_CountersConsistent ==
    \A s \in Services :
        /\ metrics[s].totalCalls = metrics[s].successfulCalls + metrics[s].failedCalls
        /\ metrics[s].lastSuccessful # Unset <=> metrics[s].successfulCalls > 0

\* initialize() has failed and then succeeded, with a successful call recorded
\* for vectorStore besides: vectorStore and documentation have successes and
\* failures, openai has no call and no lastSuccessful
C39_Witness ==
    /\ metrics[svc].successfulCalls = 3
    /\ metrics[svc].failedCalls = 2
    /\ metrics["documentation"].successfulCalls = 2
    /\ metrics["documentation"].failedCalls = 7
    /\ metrics["openai"].totalCalls = 0
    /\ metrics["openai"].lastSuccessful = Unset

-----------------------------------------------------------------------------
(* The frame of the rate limiter's operations, checked under Spec *)

\* C40: a checkRateLimit(s) step, also inside withRateLimit, and a
\* getRateLimitInfo(s) step leave the rate-limit state and the effective limits
\* of every service other than s as they were, and no step of any operation
\* changes DEFAULT_LIMITS.
C40_LimiterFrame ==
    /\ [](baseLimits = DEFAULT_LIMITS)
    /\ [][/\ baseLimits' = baseLimits
          /\ \A s \in Services :
                 (\/ CheckRateLimit(s)
                  \/ GetRateLimitInfo(s)
                  \/ \E hasFallback \in BOOLEAN : WithRateLimitCall(s, hasFallback)) =>
                     \A t \in Services \ {s} :
                         /\ rlState'[t] = rlState[t]
                         /\ limits'[t] = limits[t]]_vars

\* checkRateLimit(svc) has reduced the limits of svc and counted a request, and
\* a later step has started a new window for svc; the other services and
\* DEFAULT_LIMITS are as they were at construction
C40_Witness ==
    /\ limits[svc].maxRequestsPerMinute < DEFAULT_LIMITS[svc].maxRequestsPerMinute
    /\ rlState[svc].requests > 0
    /\ rlState[svc].lastBurstReset > StartTime
    /\ \A t \in Services \ {svc} :
           /\ limits[t] = DEFAULT_LIMITS[t]
           /\ rlState[t].requests = 0 /\ rlState[t].lastReset = StartTime
    /\ baseLimits = DEFAULT_LIMITS

-----------------------------------------------------------------------------
(* SpecLockout: checkRateLimit(svc) calls for a service whose calls fail,    *)
(* while time passes                                                         *)

MaxLockoutOps == 7        \* calls and clock steps in one behaviour of SpecLockout
LockoutSteps == {60000}   \* steps of the clock in SpecLockout, in ms

InitLockout == Constructed /\ opsLeft = MaxLockoutOps

LockoutRecord ==
    \E ok \in BOOLEAN :
        RecordServiceCall(svc, now, ok, IF ok THEN NoError ELSE "timeout") /\ Spend

LockoutCheck == CheckRateLimit(svc) /\ Spend

LockoutTick == \E d \in LockoutSteps : Tick(d) /\ Spend

NextLockout == LockoutRecord \/ LockoutCheck \/ LockoutTick

SpecLockout == InitLockout /\ [][NextLockout]_vars

\* C35: in every reachable state the effective maxRequestsPerMinute and
\* burstLimit of every service are at least 1, and a checkRateLimit(svc) made
\* once the cooldown and the 60-second window of svc have elapsed returns true.
C35_NeverLockedOut ==
    /\ [](\A s \in Services :
            limits[s].maxRequestsPerMinute >= 1 /\ limits[s].burstLimit >= 1)
    /\ [][(/\ CheckRateLimit(svc)
           /\ now >= rlState[svc].cooldownUntil
           /\ WindowOver(rlState[svc])) =>
              CheckOutcome(svc) = "admitted"]_vars

-----------------------------------------------------------------------------
(* SpecBurst: checkRateLimit(svc) calls, alone and inside overlapping        *)
(* withRateLimit calls, at the pace of the burst window                      *)

MaxBurstTicks == 6        \* clock steps in one behaviour of SpecBurst
MaxBurstCalls == 2        \* withRateLimit calls in one behaviour of SpecBurst
BurstSteps == {1000}      \* steps of the clock in SpecBurst, in ms

InitBurst == Constructed /\ svc = "openai" /\ opsLeft = MaxBurstTicks

BurstCheck == CheckRateLimit(svc) /\ UNCHANGED opsLeft

BurstCall ==
    /\ Len(rlCalls) < MaxBurstCalls
    /\ \E hasFallback \in BOOLEAN : WithRateLimitCall(svc, hasFallback)
    /\ UNCHANGED opsLeft

BurstResume == \E i \in 1..Len(rlCalls) : WithRateLimitResume(i) /\ UNCHANGED opsLeft

BurstSettle == \E i \in 1..Len(rlCalls) : WithRateLimitSettle(i, TRUE) /\ UNCHANGED opsLeft

BurstTick == \E d \in BurstSteps : Tick(d) /\ Spend

NextBurst == BurstCheck \/ BurstCall \/ BurstResume \/ BurstSettle \/ BurstTick

SpecBurst == InitBurst /\ [][NextBurst]_vars

\* C36: however the checks of overlapping withRateLimit calls interleave, the
\* window counter of a service never exceeds its base maxRequestsPerMinute and
\* its burst counter never exceeds its base burstLimit.
C36_CountersWithinBase ==
    \A s \in Services :
        /\ rlState[s].requests <= DEFAULT_LIMITS[s].maxRequestsPerMinute
        /\ rlState[s].burstCount <= DEFAULT_LIMITS[s].burstLimit

\* The window counter of svc has reached the base maxRequestsPerMinute, two
\* withRateLimit calls among the admitted ones, and the next check was denied
C36_Witness ==
    /\ rlState[svc].requests = DEFAULT_LIMITS[svc].maxRequestsPerMinute
    /\ rlState[svc].isThrottled
    /\ Len(rlCalls) = 2
    /\ rlCalls[1].canProceed /\ rlCalls[2].canProceed
    /\ rlCalls[1].pc = "operation" /\ rlCalls[2].pc = "awaitCheck"

====
